---------------------------- MODULE Spec2Model ----------------------------
(***************************************************************************)
(* A model of the YouDao translate pipeline (manifold/YoudaoTranslateLLM). *)
(*                                                                         *)
(* The plugin has three units: the classifier detect_polish_option, the    *)
(* request signer addAuthParams/truncate, and the stream adapter           *)
(* process_sse_stream, composed by pipe.                                   *)
(*                                                                         *)
(* Python str values are modelled as sequences of one-character strings,   *)
(* so that substring search, slicing, concatenation, strip and lower are   *)
(* computed character by character as the code computes them.  The prompt  *)
(* texts are only ever passed along whole, and are TLA+ strings.           *)
(***************************************************************************)
EXTENDS Integers, Sequences, FiniteSets, TLC

(***************************************************************************)
(* Bounds of the model.                                                    *)
(***************************************************************************)
\* Most words joined into one classifier input text.
MaxWords == 2

\* Most characters between the two 10-character ends of a signed text.
MaxMid == 1

\* Most lines one request reads from its source stream.
MaxLines == 3

(***************************************************************************)
(* Python values that are not strings.                                     *)
(***************************************************************************)
\* Python's None: a value that equals no str (a str is a sequence of
\* one-character strings).
None == <<"None">>

(***************************************************************************)
(* str operations.                                                         *)
(***************************************************************************)
UpperCase ==
    <<"A", "B", "C", "D", "E", "F", "G", "H", "I", "J", "K", "L", "M",
      "N", "O", "P", "Q", "R", "S", "T", "U", "V", "W", "X", "Y", "Z">>

LowerCase ==
    <<"a", "b", "c", "d", "e", "f", "g", "h", "i", "j", "k", "l", "m",
      "n", "o", "p", "q", "r", "s", "t", "u", "v", "w", "x", "y", "z">>

\* str.lower() on one character: A..Z map to a..z, every other character of
\* the model's alphabet (ASCII) is unchanged.
LowerChar(c) ==
    IF \E i \in 1..Len(UpperCase) : UpperCase[i] = c
    THEN LowerCase[CHOOSE i \in 1..Len(UpperCase) : UpperCase[i] = c]
    ELSE c

\* text.lower()
Lower(s) == [i \in 1..Len(s) |-> LowerChar(s[i])]

\* Python's `k in s` for two str values: k occurs in s as a contiguous run.
IsSubstring(k, s) ==
    \E i \in 1..(Len(s) - Len(k) + 1) : SubSeq(s, i, i + Len(k) - 1) = k

\* s.startswith(p)
StartsWith(s, p) == Len(s) >= Len(p) /\ SubSeq(s, 1, Len(p)) = p

Digits == <<"0", "1", "2", "3", "4", "5", "6", "7", "8", "9">>

\* str(n) for an int n >= 0: its decimal representation.
RECURSIVE Str(_)
Str(n) ==
    IF n < 10 THEN <<Digits[n + 1]>>
    ELSE Str(n \div 10) \o <<Digits[(n % 10) + 1]>>

(***************************************************************************)
(* The classifier's tables (detect_polish_option).                         *)
(***************************************************************************)
\* domain_keywords['literary'], in list order, duplicates kept.
domain_keywords_literary ==
    <<
      <<"l", "a", "u", "g", "h", "t", "e", "r">>,
      <<"w", "h", "i", "s", "p", "e", "r">>,
      <<"e", "c", "h", "o">>,
      <<"s", "o", "u", "n", "d">>,
      <<"v", "o", "i", "c", "e">>,
      <<"m", "u", "s", "i", "c">>,
      <<"d", "a", "n", "c", "e">>,
      <<"s", "m", "i", "l", "e">>,
      <<"t", "e", "a", "r">>,
      <<"h", "e", "a", "r", "t">>,
      <<"s", "o", "u", "l">>,
      <<"s", "p", "i", "r", "i", "t">>,
      <<"m", "o", "o", "d">>,
      <<"a", "t", "m", "o", "s", "p", "h", "e", "r", "e">>,
      <<"s", "c", "e", "n", "e">>,
      <<"m", "o", "m", "e", "n", "t">>,
      <<"m", "e", "m", "o", "r", "y">>,
      <<"d", "r", "e", "a", "m">>,
      <<"n", "i", "g", "h", "t">>,
      <<"d", "a", "w", "n">>,
      <<"s", "u", "n", "s", "e", "t">>,
      <<"r", "a", "i", "n">>,
      <<"w", "i", "n", "d">>,
      <<"s", "t", "o", "r", "m">>,
      <<"s", "e", "a">>,
      <<"m", "o", "u", "n", "t", "a", "i", "n">>,
      <<"f", "o", "r", "e", "s", "t">>,
      <<"g", "a", "r", "d", "e", "n">>,
      <<"f", "l", "o", "w", "e", "r">>,
      <<"t", "r", "e", "e">>,
      <<"b", "i", "r", "d">>,
      <<"s", "h", "a", "d", "o", "w">>,
      <<"l", "i", "g", "h", "t">>,
      <<"d", "a", "r", "k">>,
      <<"c", "o", "l", "o", "r">>,
      <<"t", "a", "s", "t", "e">>,
      <<"s", "m", "e", "l", "l">>,
      <<"t", "o", "u", "c", "h">>,
      <<"f", "e", "e", "l">>,
      <<"e", "m", "o", "t", "i", "o", "n">>,
      <<"f", "e", "e", "l", "i", "n", "g">>,
      <<"m", "o", "o", "d">>,
      <<"a", "t", "m", "o", "s", "p", "h", "e", "r", "e">>,
      <<"w", "h", "i", "s", "k", "e", "y">>,
      <<"w", "i", "n", "e">>,
      <<"b", "a", "r">>,
      <<"c", "a", "f", "e">>,
      <<"r", "e", "s", "t", "a", "u", "r", "a", "n", "t">>,
      <<"h", "o", "t", "e", "l">>,
      <<"r", "o", "o", "m">>,
      <<"h", "o", "u", "s", "e">>,
      <<"s", "t", "r", "e", "e", "t">>,
      <<"c", "i", "t", "y">>,
      <<"t", "o", "w", "n">>,
      <<"v", "i", "l", "l", "a", "g", "e">>,
      <<"c", "o", "u", "n", "t", "r", "y">>,
      <<"w", "o", "r", "l", "d">>,
      <<"u", "n", "i", "v", "e", "r", "s", "e">>,
      <<"t", "i", "m", "e">>,
      <<"s", "p", "a", "c", "e">>,
      <<"l", "i", "f", "e">>,
      <<"d", "e", "a", "t", "h">>,
      <<"l", "o", "v", "e">>,
      <<"h", "a", "t", "e">>,
      <<"j", "o", "y">>,
      <<"s", "o", "r", "r", "o", "w">>,
      <<"h", "o", "p", "e">>,
      <<"f", "e", "a", "r">>,
      <<"c", "o", "u", "r", "a", "g", "e">>,
      <<"w", "i", "s", "d", "o", "m">>
    >>

\* domain_keywords['computer'], in list order, duplicates kept.
domain_keywords_computer ==
    <<
      <<"p", "r", "o", "g", "r", "a", "m">>,
      <<"c", "o", "d", "e">>,
      <<"s", "o", "f", "t", "w", "a", "r", "e">>,
      <<"h", "a", "r", "d", "w", "a", "r", "e">>,
      <<"c", "o", "m", "p", "u", "t", "e", "r">>,
      <<"s", "y", "s", "t", "e", "m">>,
      <<"d", "a", "t", "a">>,
      <<"a", "l", "g", "o", "r", "i", "t", "h", "m">>,
      <<"n", "e", "t", "w", "o", "r", "k">>,
      <<"d", "a", "t", "a", "b", "a", "s", "e">>,
      <<"s", "e", "r", "v", "e", "r">>,
      <<"c", "l", "i", "e", "n", "t">>,
      <<"a", "p", "i">>,
      <<"i", "n", "t", "e", "r", "f", "a", "c", "e">>,
      <<"f", "u", "n", "c", "t", "i", "o", "n">>,
      <<"c", "l", "a", "s", "s">>,
      <<"o", "b", "j", "e", "c", "t">>,
      <<"v", "a", "r", "i", "a", "b", "l", "e">>,
      <<"l", "o", "o", "p">>,
      <<"a", "r", "r", "a", "y">>,
      <<"s", "t", "r", "i", "n", "g">>,
      <<"i", "n", "t", "e", "g", "e", "r">>,
      <<"f", "l", "o", "a", "t">>,
      <<"b", "o", "o", "l", "e", "a", "n">>,
      <<"d", "e", "b", "u", "g">>,
      <<"c", "o", "m", "p", "i", "l", "e">>,
      <<"r", "u", "n", "t", "i", "m", "e">>,
      <<"f", "r", "a", "m", "e", "w", "o", "r", "k">>,
      <<"l", "i", "b", "r", "a", "r", "y">>,
      <<"p", "a", "c", "k", "a", "g", "e">>,
      <<"m", "o", "d", "u", "l", "e">>,
      <<"d", "e", "p", "e", "n", "d", "e", "n", "c", "y">>,
      <<"v", "e", "r", "s", "i", "o", "n">>,
      <<"g", "i", "t">>,
      <<"r", "e", "p", "o", "s", "i", "t", "o", "r", "y">>,
      <<"c", "l", "o", "u", "d">>,
      <<"c", "o", "n", "t", "a", "i", "n", "e", "r">>,
      <<"d", "o", "c", "k", "e", "r">>,
      <<"k", "u", "b", "e", "r", "n", "e", "t", "e", "s">>,
      <<"m", "i", "c", "r", "o", "s", "e", "r", "v", "i", "c", "e">>,
      <<"a", "r", "c", "h", "i", "t", "e", "c", "t", "u", "r", "e">>,
      <<"p", "r", "o", "t", "o", "c", "o", "l">>,
      <<"e", "n", "c", "r", "y", "p", "t", "i", "o", "n">>,
      <<"s", "e", "c", "u", "r", "i", "t", "y">>,
      <<"a", "u", "t", "h", "e", "n", "t", "i", "c", "a", "t", "i", "o", "n">>,
      <<"a", "u", "t", "h", "o", "r", "i", "z", "a", "t", "i", "o", "n">>,
      <<"t", "o", "k", "e", "n">>,
      <<"s", "e", "s", "s", "i", "o", "n">>,
      <<"c", "o", "o", "k", "i", "e">>
    >>

\* domain_keywords['medical'], in list order, duplicates kept.
domain_keywords_medical ==
    <<
      <<"p", "a", "t", "i", "e", "n", "t">>,
      <<"d", "i", "s", "e", "a", "s", "e">>,
      <<"t", "r", "e", "a", "t", "m", "e", "n", "t">>,
      <<"s", "y", "m", "p", "t", "o", "m">>,
      <<"d", "i", "a", "g", "n", "o", "s", "i", "s">>,
      <<"m", "e", "d", "i", "c", "i", "n", "e">>,
      <<"h", "o", "s", "p", "i", "t", "a", "l">>,
      <<"d", "o", "c", "t", "o", "r">>,
      <<"n", "u", "r", "s", "e">>,
      <<"c", "l", "i", "n", "i", "c">>,
      <<"t", "h", "e", "r", "a", "p", "y">>,
      <<"s", "u", "r", "g", "e", "r", "y">>,
      <<"p", "r", "e", "s", "c", "r", "i", "p", "t", "i", "o", "n">>,
      <<"p", "h", "a", "r", "m", "a", "c", "y">>,
      <<"d", "r", "u", "g">>,
      <<"v", "a", "c", "c", "i", "n", "e">>,
      <<"v", "i", "r", "u", "s">>,
      <<"b", "a", "c", "t", "e", "r", "i", "a">>,
      <<"i", "n", "f", "e", "c", "t", "i", "o", "n">>,
      <<"i", "n", "f", "l", "a", "m", "m", "a", "t", "i", "o", "n">>,
      <<"c", "h", "r", "o", "n", "i", "c">>,
      <<"a", "c", "u", "t", "e">>,
      <<"s", "y", "n", "d", "r", "o", "m", "e">>,
      <<"p", "a", "t", "h", "o", "l", "o", "g", "y">>,
      <<"p", "h", "y", "s", "i", "o", "l", "o", "g", "y">>,
      <<"a", "n", "a", "t", "o", "m", "y">>,
      <<"n", "e", "u", "r", "o", "l", "o", "g", "y">>,
      <<"c", "a", "r", "d", "i", "o", "l", "o", "g", "y">>,
      <<"o", "n", "c", "o", "l", "o", "g", "y">>,
      <<"p", "e", "d", "i", "a", "t", "r", "i", "c", "s">>,
      <<"p", "s", "y", "c", "h", "i", "a", "t", "r", "y">>,
      <<"d", "e", "r", "m", "a", "t", "o", "l", "o", "g", "y">>,
      <<"o", "p", "h", "t", "h", "a", "l", "m", "o", "l", "o", "g", "y">>,
      <<"o", "r", "t", "h", "o", "p", "e", "d", "i", "c", "s">>,
      <<"g", "y", "n", "e", "c", "o", "l", "o", "g", "y">>,
      <<"u", "r", "o", "l", "o", "g", "y">>,
      <<"e", "m", "e", "r", "g", "e", "n", "c", "y">>,
      <<"i", "n", "t", "e", "n", "s", "i", "v", "e", " ", "c", "a", "r", "e">>,
      <<"r", "e", "h", "a", "b", "i", "l", "i", "t", "a", "t", "i", "o", "n">>,
      <<"p", "r", "o", "g", "n", "o", "s", "i", "s">>,
      <<"m", "o", "r", "t", "a", "l", "i", "t", "y">>,
      <<"m", "o", "r", "b", "i", "d", "i", "t", "y">>
    >>

\* domain_keywords['biology'], in list order, duplicates kept.
domain_keywords_biology ==
    <<
      <<"c", "e", "l", "l">>,
      <<"g", "e", "n", "e">>,
      <<"p", "r", "o", "t", "e", "i", "n">>,
      <<"o", "r", "g", "a", "n", "i", "s", "m">>,
      <<"s", "p", "e", "c", "i", "e", "s">>,
      <<"e", "v", "o", "l", "u", "t", "i", "o", "n">>,
      <<"b", "i", "o", "l", "o", "g", "y">>,
      <<"g", "e", "n", "e", "t", "i", "c">>,
      <<"d", "n", "a">>,
      <<"r", "n", "a">>,
      <<"c", "h", "r", "o", "m", "o", "s", "o", "m", "e">>,
      <<"m", "u", "t", "a", "t", "i", "o", "n">>,
      <<"e", "n", "z", "y", "m", "e">>,
      <<"m", "e", "t", "a", "b", "o", "l", "i", "s", "m">>,
      <<"p", "h", "o", "t", "o", "s", "y", "n", "t", "h", "e", "s", "i", "s">>,
      <<"r", "e", "s", "p", "i", "r", "a", "t", "i", "o", "n">>,
      <<"e", "c", "o", "s", "y", "s", "t", "e", "m">>,
      <<"b", "i", "o", "d", "i", "v", "e", "r", "s", "i", "t", "y">>,
      <<"t", "a", "x", "o", "n", "o", "m", "y">>,
      <<"p", "h", "y", "l", "o", "g", "e", "n", "y">>,
      <<"m", "o", "r", "p", "h", "o", "l", "o", "g", "y">>,
      <<"p", "h", "y", "s", "i", "o", "l", "o", "g", "y">>,
      <<"a", "n", "a", "t", "o", "m", "y">>,
      <<"m", "i", "c", "r", "o", "b", "i", "o", "l", "o", "g", "y">>,
      <<"b", "o", "t", "a", "n", "y">>,
      <<"z", "o", "o", "l", "o", "g", "y">>,
      <<"e", "c", "o", "l", "o", "g", "y">>,
      <<"m", "a", "r", "i", "n", "e", " ", "b", "i", "o", "l", "o", "g", "y">>,
      <<"m", "o", "l", "e", "c", "u", "l", "a", "r", " ", "b", "i", "o", "l", "o", "g", "y">>,
      <<"c", "e", "l", "l", " ", "b", "i", "o", "l", "o", "g", "y">>,
      <<"d", "e", "v", "e", "l", "o", "p", "m", "e", "n", "t", "a", "l", " ", "b", "i", "o", "l", "o", "g", "y">>,
      <<"p", "o", "p", "u", "l", "a", "t", "i", "o", "n", " ", "g", "e", "n", "e", "t", "i", "c", "s">>,
      <<"b", "i", "o", "c", "h", "e", "m", "i", "s", "t", "r", "y">>,
      <<"b", "i", "o", "t", "e", "c", "h", "n", "o", "l", "o", "g", "y">>,
      <<"b", "i", "o", "i", "n", "f", "o", "r", "m", "a", "t", "i", "c", "s">>,
      <<"g", "e", "n", "o", "m", "i", "c", "s">>,
      <<"p", "r", "o", "t", "e", "o", "m", "i", "c", "s">>,
      <<"t", "r", "a", "n", "s", "c", "r", "i", "p", "t", "o", "m", "i", "c", "s">>
    >>

\* domain_keywords['mechanical'], in list order, duplicates kept.
domain_keywords_mechanical ==
    <<
      <<"m", "a", "c", "h", "i", "n", "e">>,
      <<"e", "n", "g", "i", "n", "e">>,
      <<"m", "e", "c", "h", "a", "n", "i", "c", "a", "l">>,
      <<"d", "e", "v", "i", "c", "e">>,
      <<"e", "q", "u", "i", "p", "m", "e", "n", "t">>,
      <<"c", "o", "m", "p", "o", "n", "e", "n", "t">>,
      <<"p", "a", "r", "t">>,
      <<"g", "e", "a", "r">>,
      <<"s", "h", "a", "f", "t">>,
      <<"b", "e", "a", "r", "i", "n", "g">>,
      <<"p", "u", "m", "p">>,
      <<"m", "o", "t", "o", "r">>,
      <<"t", "u", "r", "b", "i", "n", "e">>,
      <<"c", "o", "m", "p", "r", "e", "s", "s", "o", "r">>,
      <<"v", "a", "l", "v", "e">>,
      <<"h", "y", "d", "r", "a", "u", "l", "i", "c">>,
      <<"p", "n", "e", "u", "m", "a", "t", "i", "c">>,
      <<"t", "h", "e", "r", "m", "o", "d", "y", "n", "a", "m", "i", "c", "s">>,
      <<"f", "l", "u", "i", "d", " ", "m", "e", "c", "h", "a", "n", "i", "c", "s">>,
      <<"h", "e", "a", "t", " ", "t", "r", "a", "n", "s", "f", "e", "r">>,
      <<"m", "a", "t", "e", "r", "i", "a", "l", " ", "s", "c", "i", "e", "n", "c", "e">>,
      <<"m", "e", "t", "a", "l", "l", "u", "r", "g", "y">>,
      <<"w", "e", "l", "d", "i", "n", "g">>,
      <<"c", "a", "s", "t", "i", "n", "g">>,
      <<"f", "o", "r", "g", "i", "n", "g">>,
      <<"m", "a", "c", "h", "i", "n", "i", "n", "g">>,
      <<"a", "u", "t", "o", "m", "a", "t", "i", "o", "n">>,
      <<"r", "o", "b", "o", "t", "i", "c", "s">>,
      <<"c", "o", "n", "t", "r", "o", "l", " ", "s", "y", "s", "t", "e", "m">>,
      <<"s", "e", "n", "s", "o", "r">>,
      <<"a", "c", "t", "u", "a", "t", "o", "r">>,
      <<"t", "r", "a", "n", "s", "m", "i", "s", "s", "i", "o", "n">>,
      <<"c", "l", "u", "t", "c", "h">>,
      <<"b", "r", "a", "k", "e">>,
      <<"s", "u", "s", "p", "e", "n", "s", "i", "o", "n">>,
      <<"c", "h", "a", "s", "s", "i", "s">>,
      <<"a", "e", "r", "o", "d", "y", "n", "a", "m", "i", "c", "s">>,
      <<"p", "r", "o", "p", "u", "l", "s", "i", "o", "n">>,
      <<"m", "a", "n", "u", "f", "a", "c", "t", "u", "r", "i", "n", "g">>,
      <<"p", "r", "o", "d", "u", "c", "t", "i", "o", "n", " ", "l", "i", "n", "e">>,
      <<"q", "u", "a", "l", "i", "t", "y", " ", "c", "o", "n", "t", "r", "o", "l">>,
      <<"m", "a", "i", "n", "t", "e", "n", "a", "n", "c", "e">>,
      <<"r", "e", "p", "a", "i", "r">>
    >>

\* domain_keywords['finance'], in list order, duplicates kept.
domain_keywords_finance ==
    <<
      <<"s", "t", "o", "c", "k">>,
      <<"b", "o", "n", "d">>,
      <<"i", "n", "v", "e", "s", "t", "m", "e", "n", "t">>,
      <<"p", "o", "r", "t", "f", "o", "l", "i", "o">>,
      <<"m", "a", "r", "k", "e", "t">>,
      <<"t", "r", "a", "d", "i", "n", "g">>,
      <<"b", "r", "o", "k", "e", "r">>,
      <<"d", "i", "v", "i", "d", "e", "n", "d">>,
      <<"i", "n", "t", "e", "r", "e", "s", "t">>,
      <<"l", "o", "a", "n">>,
      <<"m", "o", "r", "t", "g", "a", "g", "e">>,
      <<"c", "r", "e", "d", "i", "t">>,
      <<"d", "e", "b", "i", "t">>,
      <<"a", "c", "c", "o", "u", "n", "t">>,
      <<"b", "a", "l", "a", "n", "c", "e">>,
      <<"t", "r", "a", "n", "s", "a", "c", "t", "i", "o", "n">>,
      <<"p", "r", "o", "f", "i", "t">>,
      <<"l", "o", "s", "s">>,
      <<"r", "e", "v", "e", "n", "u", "e">>,
      <<"e", "x", "p", "e", "n", "s", "e">>,
      <<"a", "s", "s", "e", "t">>,
      <<"l", "i", "a", "b", "i", "l", "i", "t", "y">>,
      <<"e", "q", "u", "i", "t", "y">>,
      <<"c", "a", "p", "i", "t", "a", "l">>,
      <<"d", "e", "r", "i", "v", "a", "t", "i", "v", "e">>,
      <<"o", "p", "t", "i", "o", "n">>,
      <<"f", "u", "t", "u", "r", "e">>,
      <<"h", "e", "d", "g", "e">>,
      <<"r", "i", "s", "k">>,
      <<"r", "e", "t", "u", "r", "n">>,
      <<"y", "i", "e", "l", "d">>,
      <<"v", "a", "l", "u", "a", "t", "i", "o", "n">>,
      <<"a", "n", "a", "l", "y", "s", "i", "s">>,
      <<"f", "o", "r", "e", "c", "a", "s", "t">>,
      <<"b", "u", "d", "g", "e", "t">>,
      <<"a", "u", "d", "i", "t">>,
      <<"t", "a", "x">>,
      <<"i", "n", "s", "u", "r", "a", "n", "c", "e">>,
      <<"b", "a", "n", "k", "i", "n", "g">>,
      <<"f", "i", "n", "t", "e", "c", "h">>
    >>

\* domain_keywords['legal'], in list order, duplicates kept.
domain_keywords_legal ==
    <<
      <<"l", "a", "w">>,
      <<"l", "e", "g", "a", "l">>,
      <<"c", "o", "n", "t", "r", "a", "c", "t">>,
      <<"a", "g", "r", "e", "e", "m", "e", "n", "t">>,
      <<"c", "l", "a", "u", "s", "e">>,
      <<"s", "t", "a", "t", "u", "t", "e">>,
      <<"r", "e", "g", "u", "l", "a", "t", "i", "o", "n">>,
      <<"c", "o", "m", "p", "l", "i", "a", "n", "c", "e">>,
      <<"l", "i", "t", "i", "g", "a", "t", "i", "o", "n">>,
      <<"c", "o", "u", "r", "t">>,
      <<"j", "u", "d", "g", "e">>,
      <<"j", "u", "r", "y">>,
      <<"a", "t", "t", "o", "r", "n", "e", "y">>,
      <<"l", "a", "w", "y", "e", "r">>,
      <<"p", "l", "a", "i", "n", "t", "i", "f", "f">>,
      <<"d", "e", "f", "e", "n", "d", "a", "n", "t">>,
      <<"e", "v", "i", "d", "e", "n", "c", "e">>,
      <<"t", "e", "s", "t", "i", "m", "o", "n", "y">>,
      <<"w", "i", "t", "n", "e", "s", "s">>,
      <<"h", "e", "a", "r", "i", "n", "g">>,
      <<"t", "r", "i", "a", "l">>,
      <<"a", "p", "p", "e", "a", "l">>,
      <<"v", "e", "r", "d", "i", "c", "t">>,
      <<"s", "e", "n", "t", "e", "n", "c", "e">>,
      <<"j", "u", "r", "i", "s", "d", "i", "c", "t", "i", "o", "n">>,
      <<"p", "r", "e", "c", "e", "d", "e", "n", "t">>,
      <<"c", "o", "n", "s", "t", "i", "t", "u", "t", "i", "o", "n">>,
      <<"a", "m", "e", "n", "d", "m", "e", "n", "t">>,
      <<"l", "e", "g", "i", "s", "l", "a", "t", "i", "o", "n">>,
      <<"e", "n", "f", "o", "r", "c", "e", "m", "e", "n", "t">>,
      <<"i", "n", "t", "e", "l", "l", "e", "c", "t", "u", "a", "l", " ", "p", "r", "o", "p", "e", "r", "t", "y">>,
      <<"p", "a", "t", "e", "n", "t">>,
      <<"c", "o", "p", "y", "r", "i", "g", "h", "t">>,
      <<"t", "r", "a", "d", "e", "m", "a", "r", "k">>,
      <<"l", "i", "c", "e", "n", "s", "e">>,
      <<"p", "e", "r", "m", "i", "t">>
    >>

\* style_keywords['literary'], in list order, duplicates kept.
style_keywords_literary ==
    <<
      <<"m", "e", "t", "a", "p", "h", "o", "r">>,
      <<"s", "i", "m", "i", "l", "e">>,
      <<"i", "m", "a", "g", "e", "r", "y">>,
      <<"s", "y", "m", "b", "o", "l">>,
      <<"a", "l", "l", "e", "g", "o", "r", "y">>,
      <<"p", "e", "r", "s", "o", "n", "i", "f", "i", "c", "a", "t", "i", "o", "n">>,
      <<"h", "y", "p", "e", "r", "b", "o", "l", "e">>,
      <<"i", "r", "o", "n", "y">>,
      <<"s", "a", "t", "i", "r", "e">>,
      <<"a", "l", "l", "u", "s", "i", "o", "n">>,
      <<"a", "l", "l", "i", "t", "e", "r", "a", "t", "i", "o", "n">>,
      <<"a", "s", "s", "o", "n", "a", "n", "c", "e">>,
      <<"r", "h", "y", "t", "h", "m">>,
      <<"r", "h", "y", "m", "e">>,
      <<"m", "e", "t", "e", "r">>,
      <<"s", "t", "a", "n", "z", "a">>,
      <<"v", "e", "r", "s", "e">>,
      <<"p", "r", "o", "s", "e">>,
      <<"n", "a", "r", "r", "a", "t", "i", "v", "e">>,
      <<"d", "e", "s", "c", "r", "i", "p", "t", "i", "v", "e">>,
      <<"p", "o", "e", "t", "i", "c">>,
      <<"l", "y", "r", "i", "c", "a", "l">>,
      <<"e", "l", "e", "g", "a", "n", "t">>,
      <<"g", "r", "a", "c", "e", "f", "u", "l">>,
      <<"b", "e", "a", "u", "t", "i", "f", "u", "l">>,
      <<"v", "i", "v", "i", "d">>,
      <<"c", "o", "l", "o", "r", "f", "u", "l">>,
      <<"r", "i", "c", "h">>,
      <<"d", "e", "e", "p">>,
      <<"p", "r", "o", "f", "o", "u", "n", "d">>,
      <<"m", "e", "a", "n", "i", "n", "g", "f", "u", "l">>,
      <<"s", "y", "m", "b", "o", "l", "i", "c">>,
      <<"a", "r", "t", "i", "s", "t", "i", "c">>,
      <<"c", "r", "e", "a", "t", "i", "v", "e">>,
      <<"i", "m", "a", "g", "i", "n", "a", "t", "i", "v", "e">>,
      <<"e", "x", "p", "r", "e", "s", "s", "i", "v", "e">>,
      <<"e", "v", "o", "c", "a", "t", "i", "v", "e">>
    >>

\* style_keywords['formal'], in list order, duplicates kept.
style_keywords_formal ==
    <<
      <<"t", "h", "e", "r", "e", "f", "o", "r", "e">>,
      <<"t", "h", "u", "s">>,
      <<"h", "e", "n", "c", "e">>,
      <<"c", "o", "n", "s", "e", "q", "u", "e", "n", "t", "l", "y">>,
      <<"f", "u", "r", "t", "h", "e", "r", "m", "o", "r", "e">>,
      <<"m", "o", "r", "e", "o", "v", "e", "r">>,
      <<"a", "c", "a", "d", "e", "m", "i", "c">>,
      <<"a", "c", "c", "o", "r", "d", "i", "n", "g", "l", "y">>,
      <<"s", "u", "b", "s", "e", "q", "u", "e", "n", "t", "l", "y">>,
      <<"p", "r", "e", "v", "i", "o", "u", "s", "l", "y">>,
      <<"a", "f", "o", "r", "e", "m", "e", "n", "t", "i", "o", "n", "e", "d">>,
      <<"a", "f", "o", "r", "e", "d", "e", "s", "c", "r", "i", "b", "e", "d">>,
      <<"h", "e", "r", "e", "i", "n">>,
      <<"h", "e", "r", "e", "t", "o">>,
      <<"h", "e", "r", "e", "o", "f">>,
      <<"h", "e", "r", "e", "b", "y">>,
      <<"w", "h", "e", "r", "e", "a", "s">>,
      <<"w", "h", "e", "r", "e", "o", "f">>,
      <<"w", "h", "e", "r", "e", "i", "n">>,
      <<"w", "h", "e", "r", "e", "b", "y">>,
      <<"p", "u", "r", "s", "u", "a", "n", "t", " ", "t", "o">>,
      <<"i", "n", " ", "a", "c", "c", "o", "r", "d", "a", "n", "c", "e", " ", "w", "i", "t", "h">>,
      <<"s", "u", "b", "j", "e", "c", "t", " ", "t", "o">>,
      <<"n", "o", "t", "w", "i", "t", "h", "s", "t", "a", "n", "d", "i", "n", "g">>,
      <<"i", "n", " ", "l", "i", "e", "u", " ", "o", "f">>,
      <<"i", "n", " ", "t", "h", "e", " ", "e", "v", "e", "n", "t", " ", "o", "f">>,
      <<"f", "o", "r", " ", "t", "h", "e", " ", "p", "u", "r", "p", "o", "s", "e", " ", "o", "f">>,
      <<"i", "n", " ", "o", "r", "d", "e", "r", " ", "t", "o">>,
      <<"w", "i", "t", "h", " ", "r", "e", "s", "p", "e", "c", "t", " ", "t", "o">>,
      <<"w", "i", "t", "h", " ", "r", "e", "g", "a", "r", "d", " ", "t", "o">>
    >>

\* style_keywords['casual'], in list order, duplicates kept.
style_keywords_casual ==
    <<
      <<"h", "e", "y">>,
      <<"c", "o", "o", "l">>,
      <<"a", "w", "e", "s", "o", "m", "e">>,
      <<"g", "r", "e", "a", "t">>,
      <<"n", "i", "c", "e">>,
      <<"w", "o", "w">>,
      <<"y", "e", "a", "h">>,
      <<"o", "k", "a", "y">>,
      <<"s", "u", "r", "e">>,
      <<"w", "h", "a", "t", "e", "v", "e", "r">>,
      <<"g", "o", "n", "n", "a">>,
      <<"w", "a", "n", "n", "a">>,
      <<"g", "o", "t", "t", "a">>,
      <<"k", "i", "n", "d", "a">>,
      <<"s", "o", "r", "t", "a">>,
      <<"l", "o", "t", "s">>,
      <<"t", "o", "n", "s">>,
      <<"p", "r", "e", "t", "t", "y">>,
      <<"r", "e", "a", "l", "l", "y">>,
      <<"t", "o", "t", "a", "l", "l", "y">>,
      <<"a", "b", "s", "o", "l", "u", "t", "e", "l", "y">>,
      <<"d", "e", "f", "i", "n", "i", "t", "e", "l", "y">>,
      <<"p", "r", "o", "b", "a", "b", "l", "y">>,
      <<"m", "a", "y", "b", "e">>,
      <<"g", "u", "e", "s", "s">>,
      <<"t", "h", "i", "n", "k">>,
      <<"l", "i", "k", "e">>,
      <<"y", "o", "u", " ", "k", "n", "o", "w">>,
      <<"r", "i", "g", "h", "t">>,
      <<"h", "a", "h", "a">>,
      <<"l", "o", "l">>,
      <<"o", "m", "g">>,
      <<"b", "t", "w">>,
      <<"i", "m", "o">>,
      <<"t", "b", "h">>,
      <<"i", "d", "k">>
    >>

\* style_keywords['concise'], in list order, duplicates kept.
style_keywords_concise ==
    <<
      <<"b", "r", "i", "e", "f">>,
      <<"s", "h", "o", "r", "t">>,
      <<"s", "i", "m", "p", "l", "e">>,
      <<"d", "i", "r", "e", "c", "t">>,
      <<"c", "l", "e", "a", "r">>,
      <<"c", "o", "n", "c", "i", "s", "e">>,
      <<"s", "u", "c", "c", "i", "n", "c", "t">>,
      <<"t", "e", "r", "s", "e">>,
      <<"p", "r", "e", "c", "i", "s", "e">>,
      <<"e", "x", "a", "c", "t">>,
      <<"s", "p", "e", "c", "i", "f", "i", "c">>,
      <<"f", "o", "c", "u", "s", "e", "d">>,
      <<"t", "a", "r", "g", "e", "t", "e", "d">>,
      <<"s", "t", "r", "e", "a", "m", "l", "i", "n", "e", "d">>,
      <<"e", "f", "f", "i", "c", "i", "e", "n", "t">>,
      <<"m", "i", "n", "i", "m", "a", "l">>,
      <<"e", "s", "s", "e", "n", "t", "i", "a", "l">>,
      <<"c", "o", "r", "e">>,
      <<"k", "e", "y">>,
      <<"m", "a", "i", "n">>,
      <<"p", "r", "i", "m", "a", "r", "y">>,
      <<"c", "r", "u", "c", "i", "a", "l">>,
      <<"v", "i", "t", "a", "l">>,
      <<"c", "r", "i", "t", "i", "c", "a", "l">>,
      <<"i", "m", "p", "o", "r", "t", "a", "n", "t">>,
      <<"s", "i", "g", "n", "i", "f", "i", "c", "a", "n", "t">>,
      <<"r", "e", "l", "e", "v", "a", "n", "t">>,
      <<"p", "e", "r", "t", "i", "n", "e", "n", "t">>,
      <<"a", "p", "p", "l", "i", "c", "a", "b", "l", "e">>
    >>

\* style_keywords['rich'], in list order, duplicates kept.
style_keywords_rich ==
    <<
      <<"e", "l", "a", "b", "o", "r", "a", "t", "e">>,
      <<"d", "e", "t", "a", "i", "l", "e", "d">>,
      <<"c", "o", "m", "p", "r", "e", "h", "e", "n", "s", "i", "v", "e">>,
      <<"t", "h", "o", "r", "o", "u", "g", "h">>,
      <<"e", "x", "t", "e", "n", "s", "i", "v", "e">>,
      <<"c", "o", "m", "p", "l", "e", "t", "e">>,
      <<"e", "x", "h", "a", "u", "s", "t", "i", "v", "e">>,
      <<"i", "n", "-", "d", "e", "p", "t", "h">>,
      <<"p", "r", "o", "f", "o", "u", "n", "d">>,
      <<"d", "e", "e", "p">>,
      <<"b", "r", "o", "a", "d">>,
      <<"w", "i", "d", "e", "-", "r", "a", "n", "g", "i", "n", "g">>,
      <<"a", "l", "l", "-", "e", "n", "c", "o", "m", "p", "a", "s", "s", "i", "n", "g">>,
      <<"a", "l", "l", "-", "i", "n", "c", "l", "u", "s", "i", "v", "e">>,
      <<"f", "u", "l", "l">>,
      <<"t", "o", "t", "a", "l">>,
      <<"e", "n", "t", "i", "r", "e">>,
      <<"w", "h", "o", "l", "e">>,
      <<"c", "o", "m", "p", "l", "e", "t", "e">>,
      <<"c", "o", "m", "p", "r", "e", "h", "e", "n", "s", "i", "v", "e">>,
      <<"d", "e", "t", "a", "i", "l", "e", "d">>,
      <<"m", "i", "n", "u", "t", "e">>,
      <<"p", "r", "e", "c", "i", "s", "e">>,
      <<"e", "x", "a", "c", "t">>,
      <<"a", "c", "c", "u", "r", "a", "t", "e">>,
      <<"s", "p", "e", "c", "i", "f", "i", "c">>,
      <<"p", "a", "r", "t", "i", "c", "u", "l", "a", "r">>,
      <<"c", "o", "m", "p", "r", "e", "h", "e", "n", "s", "i", "v", "e">>,
      <<"t", "h", "o", "r", "o", "u", "g", "h">>,
      <<"c", "o", "m", "p", "l", "e", "t", "e">>,
      <<"e", "x", "h", "a", "u", "s", "t", "i", "v", "e">>,
      <<"e", "x", "t", "e", "n", "s", "i", "v", "e">>,
      <<"d", "e", "t", "a", "i", "l", "e", "d">>
    >>

\* style_keywords['technical'], in list order, duplicates kept.
style_keywords_technical ==
    <<
      <<"p", "a", "r", "a", "m", "e", "t", "e", "r">>,
      <<"v", "a", "r", "i", "a", "b", "l", "e">>,
      <<"c", "o", "n", "s", "t", "a", "n", "t">>,
      <<"f", "u", "n", "c", "t", "i", "o", "n">>,
      <<"m", "e", "t", "h", "o", "d">>,
      <<"a", "l", "g", "o", "r", "i", "t", "h", "m">>,
      <<"p", "r", "o", "t", "o", "c", "o", "l">>,
      <<"i", "n", "t", "e", "r", "f", "a", "c", "e">>,
      <<"i", "m", "p", "l", "e", "m", "e", "n", "t", "a", "t", "i", "o", "n">>,
      <<"c", "o", "n", "f", "i", "g", "u", "r", "a", "t", "i", "o", "n">>,
      <<"i", "n", "i", "t", "i", "a", "l", "i", "z", "a", "t", "i", "o", "n">>,
      <<"i", "n", "i", "t", "i", "a", "l", "i", "z", "a", "t", "i", "o", "n">>,
      <<"d", "e", "p", "l", "o", "y", "m", "e", "n", "t">>,
      <<"i", "n", "t", "e", "g", "r", "a", "t", "i", "o", "n">>,
      <<"o", "p", "t", "i", "m", "i", "z", "a", "t", "i", "o", "n">>,
      <<"s", "t", "a", "n", "d", "a", "r", "d", "i", "z", "a", "t", "i", "o", "n">>,
      <<"n", "o", "r", "m", "a", "l", "i", "z", "a", "t", "i", "o", "n">>,
      <<"v", "a", "l", "i", "d", "a", "t", "i", "o", "n">>,
      <<"v", "e", "r", "i", "f", "i", "c", "a", "t", "i", "o", "n">>,
      <<"a", "u", "t", "h", "e", "n", "t", "i", "c", "a", "t", "i", "o", "n">>,
      <<"a", "u", "t", "h", "o", "r", "i", "z", "a", "t", "i", "o", "n">>,
      <<"e", "n", "c", "r", "y", "p", "t", "i", "o", "n">>,
      <<"d", "e", "c", "r", "y", "p", "t", "i", "o", "n">>,
      <<"c", "o", "m", "p", "r", "e", "s", "s", "i", "o", "n">>,
      <<"d", "e", "c", "o", "m", "p", "r", "e", "s", "s", "i", "o", "n">>,
      <<"s", "e", "r", "i", "a", "l", "i", "z", "a", "t", "i", "o", "n">>,
      <<"d", "e", "s", "e", "r", "i", "a", "l", "i", "z", "a", "t", "i", "o", "n">>
    >>

\* The prompt returned for domain 'literary' (polishOption 7).
prompt_domain_literary ==
    "Please translate the following literary text with careful attention to its artistic qualities.\nMaintain the metaphorical expressions and vivid imagery while ensuring natural flow in the target language.\nPay special attention to:\n1. Preserve metaphors and similes with culturally appropriate equivalents\n2. Maintain the rhythm and flow of the text\n3. Keep the emotional impact and atmosphere\n4. Ensure proper formatting for dramatic effect\n5. Preserve the sensory details and imagery\n6. Keep the stylistic elements that create mood and tone\n7. Maintain the balance between literal meaning and artistic expression"

\* The prompt returned for domain 'computer' (polishOption 9).
prompt_domain_computer ==
    "Please translate the following technical text with appropriate computer science terminology. \nMaintain technical accuracy while ensuring the translation is clear and understandable. \nUse proper formatting for code-related terms and technical concepts."

\* The prompt returned for domain 'medical' (polishOption 11).
prompt_domain_medical ==
    "Please translate the following medical text with appropriate medical terminology. \nEnsure accuracy in medical terms while maintaining clarity for the target audience. \nUse proper formatting for medical conditions, procedures, and medications."

\* The prompt returned for domain 'biology' (polishOption 13).
prompt_domain_biology ==
    "Please translate the following biological text with appropriate scientific terminology. \nMaintain accuracy in biological terms while ensuring the translation is clear and precise. \nUse proper formatting for scientific names and biological processes."

\* The prompt returned for domain 'mechanical' (polishOption 15).
prompt_domain_mechanical ==
    "Please translate the following mechanical engineering text with appropriate technical terminology. \nEnsure accuracy in mechanical terms while maintaining clarity for the target audience. \nUse proper formatting for technical specifications and mechanical processes."

\* The prompt returned for domain 'finance' (polishOption 1).
prompt_domain_finance ==
    "Please translate the following financial text with appropriate financial terminology. \nMaintain accuracy in financial terms while ensuring the translation is clear and professional. \nUse proper formatting for financial figures and economic concepts."

\* The prompt returned for domain 'legal' (polishOption 1).
prompt_domain_legal ==
    "Please translate the following legal text with appropriate legal terminology. \nEnsure accuracy in legal terms while maintaining the formal tone of legal documents. \nUse proper formatting for legal citations and references."

\* The prompt returned for style 'literary' (polishOption 7).
prompt_style_literary ==
    "Please translate the following text with careful attention to its literary qualities.\nFocus on maintaining the artistic and stylistic elements while ensuring natural expression in the target language.\nConsider:\n1. The rhythm and flow of the language\n2. The use of metaphors and imagery\n3. The emotional resonance of the text\n4. The cultural context and adaptations\n5. The balance between accuracy and artistry\n6. The preservation of stylistic devices\n7. The overall aesthetic quality of the translation"

\* The prompt returned for style 'formal' (polishOption 1).
prompt_style_formal ==
    "Please translate the following formal text with appropriate professional language. \nMaintain the formal tone while ensuring the translation is clear and precise. \nUse proper formatting for formal documents and professional communication."

\* The prompt returned for style 'casual' (polishOption 3).
prompt_style_casual ==
    "Please translate the following casual text with appropriate conversational language. \nMaintain the casual tone while ensuring the translation is natural and engaging. \nUse proper formatting for informal communication and everyday language."

\* The prompt returned for style 'concise' (polishOption 5).
prompt_style_concise ==
    "Please translate the following text concisely while maintaining clarity. \nFocus on brevity and directness in the translation. \nUse proper formatting for clear and efficient communication."

\* The prompt returned for style 'rich' (polishOption 7).
prompt_style_rich ==
    "Please translate the following text with rich detail and descriptive language. \nMaintain the detailed nature of the content while ensuring the translation is engaging. \nUse proper formatting for descriptive passages and elaborate explanations."

\* The prompt returned for style 'technical' (polishOption 9).
prompt_style_technical ==
    "Please translate the following technical text with appropriate technical terminology. \nMaintain technical accuracy while ensuring the translation is clear and precise. \nUse proper formatting for technical specifications and processes."

\* The prompt returned for default 'fallback' (polishOption 7).
prompt_default_fallback ==
    "Please translate the following text with attention to both meaning and style.\nEnsure the translation:\n1. Maintains the original meaning and intent\n2. Preserves any metaphorical or figurative language\n3. Keeps the natural flow and rhythm\n4. Uses appropriate formatting and punctuation\n5. Adapts cultural references when necessary\n6. Maintains the emotional tone and atmosphere\n7. Ensures readability while preserving style"

\* test_texts of main(), in list order.
test_texts ==
    <<
      <<"T", "h", "e", " ", "p", "a", "t", "i", "e", "n", "t", " ", "s", "h", "o", "w", "s", " ", "s", "y", "m", "p", "t", "o", "m", "s", " ", "o", "f", " ", "f", "e", "v", "e", "r", " ", "a", "n", "d", " ", "c", "o", "u", "g", "h", ",", " ", "r", "e", "q", "u", "i", "r", "i", "n", "g", " ", "i", "m", "m", "e", "d", "i", "a", "t", "e", " ", "m", "e", "d", "i", "c", "a", "l", " ", "a", "t", "t", "e", "n", "t", "i", "o", "n", ".">>,
      <<"T", "h", "e", " ", "p", "r", "o", "g", "r", "a", "m", " ", "n", "e", "e", "d", "s", " ", "o", "p", "t", "i", "m", "i", "z", "a", "t", "i", "o", "n", " ", "f", "o", "r", " ", "b", "e", "t", "t", "e", "r", " ", "p", "e", "r", "f", "o", "r", "m", "a", "n", "c", "e", " ", "a", "n", "d", " ", "m", "e", "m", "o", "r", "y", " ", "m", "a", "n", "a", "g", "e", "m", "e", "n", "t", ".">>,
      <<"T", "h", "e", " ", "D", "N", "A", " ", "s", "e", "q", "u", "e", "n", "c", "e", " ", "r", "e", "p", "l", "i", "c", "a", "t", "i", "o", "n", " ", "p", "r", "o", "c", "e", "s", "s", " ", "h", "a", "s", " ", "b", "e", "e", "n", " ", "s", "u", "c", "c", "e", "s", "s", "f", "u", "l", "l", "y", " ", "c", "o", "m", "p", "l", "e", "t", "e", "d", " ", "i", "n", " ", "t", "h", "e", " ", "l", "a", "b", "o", "r", "a", "t", "o", "r", "y", ".">>,
      <<"T", "h", "e", " ", "m", "e", "c", "h", "a", "n", "i", "c", "a", "l", " ", "c", "o", "m", "p", "o", "n", "e", "n", "t", "s", " ", "r", "e", "q", "u", "i", "r", "e", " ", "r", "e", "g", "u", "l", "a", "r", " ", "m", "a", "i", "n", "t", "e", "n", "a", "n", "c", "e", " ", "a", "n", "d", " ", "l", "u", "b", "r", "i", "c", "a", "t", "i", "o", "n", ".">>,
      <<"T", "h", "e", " ", "i", "n", "v", "e", "s", "t", "m", "e", "n", "t", " ", "p", "o", "r", "t", "f", "o", "l", "i", "o", " ", "s", "h", "o", "w", "s", " ", "s", "i", "g", "n", "i", "f", "i", "c", "a", "n", "t", " ", "r", "e", "t", "u", "r", "n", "s", " ", "w", "i", "t", "h", " ", "m", "i", "n", "i", "m", "a", "l", " ", "r", "i", "s", "k", " ", "e", "x", "p", "o", "s", "u", "r", "e", ".">>,
      <<"T", "h", "e", " ", "c", "o", "n", "t", "r", "a", "c", "t", " ", "t", "e", "r", "m", "s", " ", "a", "n", "d", " ", "c", "o", "n", "d", "i", "t", "i", "o", "n", "s", " ", "a", "r", "e", " ", "s", "u", "b", "j", "e", "c", "t", " ", "t", "o", " ", "a", "p", "p", "l", "i", "c", "a", "b", "l", "e", " ", "l", "a", "w", "s", " ", "a", "n", "d", " ", "r", "e", "g", "u", "l", "a", "t", "i", "o", "n", "s", ".">>,
      <<"H", "e", "y", ",", " ", "t", "h", "a", "t", "'", "s", " ", "r", "e", "a", "l", "l", "y", " ", "c", "o", "o", "l", "!", " ", "L", "e", "t", "'", "s", " ", "h", "a", "n", "g", " ", "o", "u", "t", " ", "s", "o", "m", "e", "t", "i", "m", "e", " ", "a", "n", "d", " ", "c", "a", "t", "c", "h", " ", "u", "p", ".">>,
      <<"P", "l", "e", "a", "s", "e", " ", "p", "r", "o", "v", "i", "d", "e", " ", "a", " ", "b", "r", "i", "e", "f", " ", "s", "u", "m", "m", "a", "r", "y", " ", "o", "f", " ", "t", "h", "e", " ", "m", "e", "e", "t", "i", "n", "g", " ", "o", "u", "t", "c", "o", "m", "e", "s", ".">>,
      <<"T", "h", "e", " ", "r", "e", "s", "e", "a", "r", "c", "h", " ", "p", "a", "p", "e", "r", " ", "p", "r", "e", "s", "e", "n", "t", "s", " ", "a", " ", "c", "o", "m", "p", "r", "e", "h", "e", "n", "s", "i", "v", "e", " ", "a", "n", "a", "l", "y", "s", "i", "s", " ", "o", "f", " ", "t", "h", "e", " ", "e", "x", "p", "e", "r", "i", "m", "e", "n", "t", "a", "l", " ", "d", "a", "t", "a", ".">>,
      <<"T", "h", "e", " ", "A", "P", "I", " ", "i", "m", "p", "l", "e", "m", "e", "n", "t", "a", "t", "i", "o", "n", " ", "r", "e", "q", "u", "i", "r", "e", "s", " ", "p", "r", "o", "p", "e", "r", " ", "a", "u", "t", "h", "e", "n", "t", "i", "c", "a", "t", "i", "o", "n", " ", "a", "n", "d", " ", "a", "u", "t", "h", "o", "r", "i", "z", "a", "t", "i", "o", "n", " ", "m", "e", "c", "h", "a", "n", "i", "s", "m", "s", ".">>
    >>

\* Words the classifier's input texts are built from.
Vocabulary ==
    {<<"r", "u", "n", "t", "i", "m", "e">>,
     <<"A", "l", "g", "o", "r", "i", "t", "h", "m">>,
     <<"d", "a", "t", "a">>,
     <<"r", "h", "y", "t", "h", "m">>,
     <<"H", "e", "y">>,
     <<"b", "r", "i", "e", "f">>,
     <<"e", "l", "a", "b", "o", "r", "a", "t", "e">>,
     <<"d", "e", "p", "l", "o", "y", "m", "e", "n", "t">>,
     <<"t", "h", "u", "s">>,
     <<"g", "e", "n", "e">>,
     <<"p", "u", "m", "p">>,
     <<"s", "t", "o", "c", "k">>,
     <<"j", "u", "r", "y">>,
     <<"v", "i", "r", "u", "s">>,
     <<"c", "a", "t">>,
     <<"d", "a", "w", "n">>}

(***************************************************************************)
(* The classifier (detect_polish_option).                                  *)
(***************************************************************************)
\* The domain table with 'medical' declared before 'computer'.
domain_order_medical_first ==
    <<"literary", "medical", "computer", "biology", "mechanical", "finance", "legal">>

\* domain_keywords: a dict iterates in insertion order.
domain_order ==
    <<"literary", "computer", "medical", "biology", "mechanical", "finance", "legal">>

domain_keywords ==
    [literary   |-> domain_keywords_literary,
     computer   |-> domain_keywords_computer,
     medical    |-> domain_keywords_medical,
     biology    |-> domain_keywords_biology,
     mechanical |-> domain_keywords_mechanical,
     finance    |-> domain_keywords_finance,
     legal      |-> domain_keywords_legal]

\* style_keywords, in insertion order.
style_order ==
    <<"literary", "formal", "casual", "concise", "rich", "technical">>

style_keywords ==
    [literary  |-> style_keywords_literary,
     formal    |-> style_keywords_formal,
     casual    |-> style_keywords_casual,
     concise   |-> style_keywords_concise,
     rich      |-> style_keywords_rich,
     technical |-> style_keywords_technical]

\* any(keyword in text_lower for keyword in keywords)
any_keyword_in(keywords, text_lower) ==
    \E i \in 1..Len(keywords) : IsSubstring(keywords[i], text_lower)

\* The if/elif chain on `domain` inside the domain loop.
domain_return(domain) ==
    CASE domain = "literary"   -> <<7, prompt_domain_literary>>
      [] domain = "computer"   -> <<9, prompt_domain_computer>>
      [] domain = "medical"    -> <<11, prompt_domain_medical>>
      [] domain = "biology"    -> <<13, prompt_domain_biology>>
      [] domain = "mechanical" -> <<15, prompt_domain_mechanical>>
      [] domain = "finance"    -> <<1, prompt_domain_finance>>
      [] domain = "legal"      -> <<1, prompt_domain_legal>>

\* The if/elif chain on `style` inside the style loop.
style_return(style) ==
    CASE style = "literary"  -> <<7, prompt_style_literary>>
      [] style = "formal"    -> <<1, prompt_style_formal>>
      [] style = "casual"    -> <<3, prompt_style_casual>>
      [] style = "concise"   -> <<5, prompt_style_concise>>
      [] style = "rich"      -> <<7, prompt_style_rich>>
      [] style = "technical" -> <<9, prompt_style_technical>>

\* The loop without its early return: the last category with a keyword in
\* text_lower wins.
RECURSIVE last_hit(_, _, _, _)
last_hit(order, table, text_lower, i) ==
    LET hits == { k \in i..Len(order) : any_keyword_in(table[order[k]], text_lower) }
    IN  IF hits = {} THEN 0
        ELSE CHOOSE k \in hits : \A j \in hits : j <= k

\* `for name, keywords in table.items(): if any(...)`: the index in `order`
\* of the first category, from position i on, with a keyword in text_lower;
\* 0 when the loop runs to its end.
RECURSIVE first_hit(_, _, _, _)
first_hit(order, table, text_lower, i) ==
    IF i > Len(order) THEN 0
    ELSE IF any_keyword_in(table[order[i]], text_lower) THEN i
    ELSE first_hit(order, table, text_lower, i + 1)

\* detect_polish_option(text) for a str text: the (polishOption, prompt) pair.
detect_polish_option(text) ==
    LET text_lower == Lower(text)
        d == first_hit(domain_order, domain_keywords, text_lower, 1)
        s == first_hit(style_order, style_keywords, text_lower, 1)
    IN  IF d # 0 THEN domain_return(domain_order[d])
        ELSE IF s # 0 THEN style_return(style_order[s])
        ELSE <<7, prompt_default_fallback>>
(***************************************************************************)
(* The request signer (addAuthParams, truncate).                           *)
(***************************************************************************)
\* An exception of the named type propagating out of a call.
Raised(type) == [raised |-> type]

IsRaised(r) == "raised" \in DOMAIN r

\* truncate with the comparison size < 20 in the place of size <= 20.
truncate_below_20(q) ==
    IF q = None THEN None
    ELSE LET size == Len(q)
         IN  IF size < 20 THEN q
             ELSE SubSeq(q, 1, 10) \o Str(size) \o SubSeq(q, size - 10 + 1, size)

\* truncate(q)
truncate(q) ==
    IF q = None THEN None
    ELSE LET size == Len(q)
         IN  IF size <= 20 THEN q
             ELSE SubSeq(q, 1, 10) \o Str(size) \o SubSeq(q, size - 10 + 1, size)

\* hashlib.sha256(s.encode('utf-8')).hexdigest(): SHA-256 is taken to be
\* collision-free, so a digest is identified by the string it was computed from.
sha256_hexdigest(s) == [sha256 |-> s]

\* addAuthParams with the salt left out of the signed string.
addAuthParams_unsalted(app_key, app_secret, data, uuid1, now) ==
    LET salt == uuid1
        curtime == Str(now)
    IN  IF app_key = None \/ truncate(data.q) = None \/ app_secret = None
        THEN Raised("TypeError")
        ELSE LET sign_str == app_key \o truncate(data.q) \o curtime \o app_secret
                 sign == sha256_hexdigest(sign_str)
             IN  [salt |-> salt, sign |-> sign, signType |-> "v3",
                  curtime |-> curtime, appKey |-> app_key] @@ data

\* addAuthParams(app_key, app_secret, data), where uuid1 is what
\* uuid.uuid1() returned and now what time.time() returned.  str + None and
\* None + str raise TypeError.
addAuthParams(app_key, app_secret, data, uuid1, now) ==
    LET salt == uuid1
        curtime == Str(now)
    IN  IF app_key = None \/ truncate(data.q) = None \/ app_secret = None
        THEN Raised("TypeError")
        ELSE LET sign_str == app_key \o truncate(data.q) \o salt \o curtime \o app_secret
                 sign == sha256_hexdigest(sign_str)
             IN  [salt |-> salt, sign |-> sign, signType |-> "v3",
                  curtime |-> curtime, appKey |-> app_key] @@ data

(***************************************************************************)
(* json.loads, on the JSON the model's payloads are written in: objects,   *)
(* arrays, strings, integers, null, true, false.  A parsed value carries    *)
(* its Python type.                                                        *)
(***************************************************************************)
JStr(s) == [type |-> "str", val |-> s]

JInt(n) == [type |-> "int", val |-> n]

JBool(b) == [type |-> "bool", val |-> b]

JNone == [type |-> "NoneType"]

JList(elements) == [type |-> "list", val |-> elements]

\* A dict is a function from its keys (str) to their values.
JDict(items) == [type |-> "dict", val |-> items]

JsonWhitespace == {" ", "\t", "\n", "\r"}

\* The index of the first character of s, from i on, that is not whitespace.
RECURSIVE SkipWs(_, _)
SkipWs(s, i) ==
    IF i <= Len(s) /\ s[i] \in JsonWhitespace THEN SkipWs(s, i + 1) ELSE i

\* s has lit at index i.
HasAt(s, i, lit) ==
    i + Len(lit) - 1 <= Len(s) /\ SubSeq(s, i, i + Len(lit) - 1) = lit

IsDigit(c) == \E k \in 1..Len(Digits) : Digits[k] = c

DigitValue(c) == (CHOOSE k \in 1..Len(Digits) : Digits[k] = c) - 1

\* The index after the run of digits that starts at i.
RECURSIVE ScanDigits(_, _)
ScanDigits(s, i) ==
    IF i <= Len(s) /\ IsDigit(s[i]) THEN ScanDigits(s, i + 1) ELSE i

\* int(ds) for a run of digits ds.
RECURSIVE DecimalValue(_)
DecimalValue(ds) ==
    IF Len(ds) = 0 THEN 0
    ELSE 10 * DecimalValue(SubSeq(ds, 1, Len(ds) - 1)) + DigitValue(ds[Len(ds)])

\* A parse that failed, and one that read value v and stopped before index i.
NoParse == [ok |-> FALSE]

Parsed(v, i) == [ok |-> TRUE, val |-> v, pos |-> i]

\* The printable ASCII characters, U+0020 to U+007E, in order; the grave
\* accent, which a TLA+ string cannot hold, is written by its code point.
Ascii ==
    <<" ", "!", "\"", "#", "$", "%", "&", "'", "(", ")", "*", "+", ",", "-", ".", "/",
      "0", "1", "2", "3", "4", "5", "6", "7", "8", "9", ":", ";", "<", "=", ">", "?",
      "@", "A", "B", "C", "D", "E", "F", "G", "H", "I", "J", "K", "L", "M", "N", "O",
      "P", "Q", "R", "S", "T", "U", "V", "W", "X", "Y", "Z", "[", "\\", "]", "^", "_",
      "U+96", "a", "b", "c", "d", "e", "f", "g", "h", "i", "j", "k", "l", "m", "n", "o",
      "p", "q", "r", "s", "t", "u", "v", "w", "x", "y", "z", "{", "|", "}", "~">>

HexDigits ==
    <<"0", "1", "2", "3", "4", "5", "6", "7", "8", "9", "a", "b", "c", "d", "e", "f">>

IsHex(c) == \E k \in 1..Len(HexDigits) : HexDigits[k] = LowerChar(c)

\* int(h, 16) for a run of hexadecimal digits h.
RECURSIVE HexValue(_)
HexValue(h) ==
    IF Len(h) = 0 THEN 0
    ELSE 16 * HexValue(SubSeq(h, 1, Len(h) - 1))
         + (CHOOSE k \in 1..Len(HexDigits) : HexDigits[k] = LowerChar(h[Len(h)])) - 1

\* chr(v): the character with code point v.  A character outside printable
\* ASCII is written by its code point.
chr(v) ==
    IF 32 <= v /\ v <= 126 THEN Ascii[v - 31]
    ELSE IF v = 9 THEN "\t"
    ELSE IF v = 10 THEN "\n"
    ELSE IF v = 13 THEN "\r"
    ELSE "U+" \o ToString(v)

\* The surrogate code points U+D800 to U+DFFF: a str can hold one, UTF-8
\* cannot.
HighSurrogates == 55296..56319

LowSurrogates == 56320..57343

Surrogates == { chr(v) : v \in HighSurrogates \cup LowSurrogates }

\* s has four hexadecimal digits at index i.
IsHex4(s, i) == i + 3 <= Len(s) /\ \A k \in i..(i + 3) : IsHex(s[k])

\* The character a one-letter escape stands for: \" \\ \/ \b \f \n \r \t.
SimpleEscapes == {"\"", "\\", "/", "b", "f", "n", "r", "t"}

Unescape(c) ==
    CASE c = "b" -> chr(8)
      [] c = "f" -> chr(12)
      [] c = "n" -> "\n"
      [] c = "r" -> "\r"
      [] c = "t" -> "\t"
      [] OTHER   -> c

\* The characters of a string literal from index i on, after the characters
\* chunks; the literal ends at the first quote that no backslash escapes.  A
\* \uXXXX escape gives its code point, a high surrogate escape followed by
\* a low one the code point of the pair.
RECURSIVE ScanString(_, _, _)
ScanString(s, i, chunks) ==
    IF i > Len(s) THEN NoParse
    ELSE IF s[i] = "\"" THEN Parsed(chunks, i + 1)
    ELSE IF s[i] \in {"\t", "\n", "\r"} THEN NoParse
    ELSE IF s[i] # "\\" THEN ScanString(s, i + 1, Append(chunks, s[i]))
    ELSE IF i + 1 > Len(s) THEN NoParse
    ELSE IF s[i + 1] \in SimpleEscapes
         THEN ScanString(s, i + 2, Append(chunks, Unescape(s[i + 1])))
    ELSE IF s[i + 1] = "u" /\ IsHex4(s, i + 2) THEN
        LET uni == HexValue(SubSeq(s, i + 2, i + 5))
        IN  IF /\ uni \in HighSurrogates
               /\ HasAt(s, i + 6, <<"\\", "u">>)
               /\ IsHex4(s, i + 8)
               /\ HexValue(SubSeq(s, i + 8, i + 11)) \in LowSurrogates
            THEN LET uni2 == HexValue(SubSeq(s, i + 8, i + 11))
                 IN  ScanString(s, i + 12,
                         Append(chunks, chr(65536 + (uni - 55296) * 1024 + (uni2 - 56320))))
            ELSE ScanString(s, i + 6, Append(chunks, chr(uni)))
    ELSE NoParse

\* The string literal whose opening quote is at i.
ParseJsonString(s, i) == ScanString(s, i + 1, <<>>)

\* The integer literal at i: -?(0|[1-9][0-9]*).
ParseJsonInt(s, i) ==
    LET neg == i <= Len(s) /\ s[i] = "-"
        d == IF neg THEN i + 1 ELSE i
        e == IF d <= Len(s) /\ s[d] = "0" THEN d + 1 ELSE ScanDigits(s, d)
    IN  IF e = d THEN NoParse
        ELSE LET n == DecimalValue(SubSeq(s, d, e - 1))
             IN  Parsed(JInt(IF neg THEN 0 - n ELSE n), e)

RECURSIVE ParseValue(_, _), ParseMembers(_, _, _), ParseElements(_, _, _)

\* The value whose first character is at i.
ParseValue(s, i) ==
    IF i > Len(s) THEN NoParse
    ELSE IF s[i] = "\"" THEN
        LET r == ParseJsonString(s, i)
        IN  IF r.ok THEN Parsed(JStr(r.val), r.pos) ELSE NoParse
    ELSE IF s[i] = "{" THEN
        LET j == SkipWs(s, i + 1)
        IN  IF j <= Len(s) /\ s[j] = "}" THEN Parsed(JDict(<<>>), j + 1)
            ELSE ParseMembers(s, j, <<>>)
    ELSE IF s[i] = "[" THEN
        LET j == SkipWs(s, i + 1)
        IN  IF j <= Len(s) /\ s[j] = "]" THEN Parsed(JList(<<>>), j + 1)
            ELSE ParseElements(s, j, <<>>)
    ELSE IF HasAt(s, i, <<"n", "u", "l", "l">>) THEN Parsed(JNone, i + 4)
    ELSE IF HasAt(s, i, <<"t", "r", "u", "e">>) THEN Parsed(JBool(TRUE), i + 4)
    ELSE IF HasAt(s, i, <<"f", "a", "l", "s", "e">>) THEN Parsed(JBool(FALSE), i + 5)
    ELSE ParseJsonInt(s, i)

\* The members of an object from the key at i on, items holding the members
\* read so far; a repeated key keeps its last value.
ParseMembers(s, i, items) ==
    IF i > Len(s) \/ s[i] # "\"" THEN NoParse
    ELSE LET k == ParseJsonString(s, i)
         IN  IF ~k.ok THEN NoParse
             ELSE LET c == SkipWs(s, k.pos)
                  IN  IF c > Len(s) \/ s[c] # ":" THEN NoParse
                      ELSE LET v == ParseValue(s, SkipWs(s, c + 1))
                           IN  IF ~v.ok THEN NoParse
                               ELSE LET items2 == (k.val :> v.val) @@ items
                                        e == SkipWs(s, v.pos)
                                    IN  IF e > Len(s) THEN NoParse
                                        ELSE IF s[e] = "}" THEN Parsed(JDict(items2), e + 1)
                                        ELSE IF s[e] = "," THEN
                                            ParseMembers(s, SkipWs(s, e + 1), items2)
                                        ELSE NoParse

\* The elements of an array from the value at i on.
ParseElements(s, i, elements) ==
    LET v == ParseValue(s, i)
    IN  IF ~v.ok THEN NoParse
        ELSE LET elements2 == Append(elements, v.val)
                 e == SkipWs(s, v.pos)
             IN  IF e > Len(s) THEN NoParse
                 ELSE IF s[e] = "]" THEN Parsed(JList(elements2), e + 1)
                 ELSE IF s[e] = "," THEN ParseElements(s, SkipWs(s, e + 1), elements2)
                 ELSE NoParse

\* json.loads(data): [ok |-> TRUE, val |-> the value], or [ok |-> FALSE] for
\* json.JSONDecodeError.
json_loads(data) ==
    LET r == ParseValue(data, SkipWs(data, 1))
    IN  IF r.ok /\ SkipWs(data, r.pos) > Len(data)
        THEN [ok |-> TRUE, val |-> r.val]
        ELSE [ok |-> FALSE]

\* `key in v` is defined for a dict, a list and a str; for the other types
\* it raises TypeError.
SupportsIn(v) == v.type \in {"dict", "list", "str"}

\* `key in v` for a str key.
py_in(key, v) ==
    CASE v.type = "dict" -> key \in DOMAIN v.val
      [] v.type = "list" -> \E i \in 1..Len(v.val) :
                                v.val[i].type = "str" /\ v.val[i].val = key
      [] v.type = "str"  -> IsSubstring(key, v.val)

\* v[key] for a str key is defined for a dict; a list and a str raise TypeError.
SupportsKey(v) == v.type = "dict"

\* str(v), as an f-string formats v, for the scalar types.
py_str(v) ==
    CASE v.type = "str"      -> v.val
      [] v.type = "int"      -> IF v.val < 0 THEN <<"-">> \o Str(0 - v.val) ELSE Str(v.val)
      [] v.type = "NoneType" -> <<"N", "o", "n", "e">>
      [] v.type = "bool"     -> IF v.val THEN <<"T", "r", "u", "e">>
                                ELSE <<"F", "a", "l", "s", "e">>

(***************************************************************************)
(* The lines of the source stream.  A line, as iter_lines() delivers it,   *)
(* is bytes: an ASCII byte is written as its character.                    *)
(***************************************************************************)
\* The byte 0xFF, which occurs in no UTF-8 text.
xFF == "xFF"

\* A keep-alive, an empty line: b''
KeepAlive ==
    <<>>

\* An event line: b'event:message'
EventLine ==
    <<"e", "v", "e", "n", "t", ":", "m", "e", "s", "s", "a", "g", "e">>

\* An increment: b'data: {"transIncre": "Hi"}'
IncrementHi ==
    <<"d", "a", "t", "a", ":", " ", "{", "\"", "t", "r", "a", "n", "s", "I", "n", "c", "r",
      "e", "\"", ":", " ", "\"", "H", "i", "\"", "}">>

\* The same payload with other blanks around it: b'data:{"transIncre": "Hi"} '
IncrementHiSpaced ==
    <<"d", "a", "t", "a", ":", "{", "\"", "t", "r", "a", "n", "s", "I", "n", "c", "r", "e",
      "\"", ":", " ", "\"", "H", "i", "\"", "}", " ">>

\* The same increment written as another payload string: b'data: {"transIncre":"Hi"}'
IncrementHiCompact ==
    <<"d", "a", "t", "a", ":", " ", "{", "\"", "t", "r", "a", "n", "s", "I", "n", "c", "r",
      "e", "\"", ":", "\"", "H", "i", "\"", "}">>

\* An increment that also carries an error code: b'data: {"transIncre": "Yo", "errorCode": "50"}'
IncrementWithCode ==
    <<"d", "a", "t", "a", ":", " ", "{", "\"", "t", "r", "a", "n", "s", "I", "n", "c", "r",
      "e", "\"", ":", " ", "\"", "Y", "o", "\"", ",", " ", "\"", "e", "r", "r", "o", "r",
      "C", "o", "d", "e", "\"", ":", " ", "\"", "5", "0", "\"", "}">>

\* An error event: b'data: {"errorCode": "50", "errorMsg": "invalid signature"}'
ErrorEvent ==
    <<"d", "a", "t", "a", ":", " ", "{", "\"", "e", "r", "r", "o", "r", "C", "o", "d", "e",
      "\"", ":", " ", "\"", "5", "0", "\"", ",", " ", "\"", "e", "r", "r", "o", "r", "M",
      "s", "g", "\"", ":", " ", "\"", "i", "n", "v", "a", "l", "i", "d", " ", "s", "i",
      "g", "n", "a", "t", "u", "r", "e", "\"", "}">>

\* An error event without a message: b'data: {"errorCode": "411"}'
ErrorEventNoMsg ==
    <<"d", "a", "t", "a", ":", " ", "{", "\"", "e", "r", "r", "o", "r", "C", "o", "d", "e",
      "\"", ":", " ", "\"", "4", "1", "1", "\"", "}">>

\* The success code alone: b'data: {"errorCode": "0"}'
SuccessCode ==
    <<"d", "a", "t", "a", ":", " ", "{", "\"", "e", "r", "r", "o", "r", "C", "o", "d", "e",
      "\"", ":", " ", "\"", "0", "\"", "}">>

\* JSON that is no object: b'data: 5'
NotAnObject ==
    <<"d", "a", "t", "a", ":", " ", "5">>

\* No JSON, with the marker: b'data: Unsupported language'
UnsupportedText ==
    <<"d", "a", "t", "a", ":", " ", "U", "n", "s", "u", "p", "p", "o", "r", "t", "e", "d",
      " ", "l", "a", "n", "g", "u", "a", "g", "e">>

\* No JSON, without the marker: b'data: oops'
NotJson ==
    <<"d", "a", "t", "a", ":", " ", "o", "o", "p", "s">>

\* Neither an event line nor a data line: b': ping'
CommentLine ==
    <<":", " ", "p", "i", "n", "g">>

\* Bytes that are not UTF-8: b'\xff'
NotUtf8 ==
    <<xFF>>

\* An increment whose text is a lone surrogate, escaped:
\* b'data: {"transIncre": "\\ud800"}'
IncrementSurrogate ==
    <<"d", "a", "t", "a", ":", " ", "{", "\"", "t", "r", "a", "n", "s", "I", "n", "c",
      "r", "e", "\"", ":", " ", "\"", "\\", "u", "d", "8", "0", "0", "\"", "}">>

\* An error event whose message is a lone surrogate, escaped:
\* b'data: {"errorCode": "50", "errorMsg": "\\ud800"}'
ErrorEventSurrogate ==
    <<"d", "a", "t", "a", ":", " ", "{", "\"", "e", "r", "r", "o", "r", "C", "o", "d",
      "e", "\"", ":", " ", "\"", "5", "0", "\"", ",", " ", "\"", "e", "r", "r", "o",
      "r", "M", "s", "g", "\"", ":", " ", "\"", "\\", "u", "d", "8", "0", "0", "\"",
      "}">>

\* An increment whose text is a lone surrogate, escaped, and that also
\* carries an error code: b'data: {"transIncre": "\\ud800", "errorCode": "50"}'
IncrementSurrogateWithCode ==
    <<"d", "a", "t", "a", ":", " ", "{", "\"", "t", "r", "a", "n", "s", "I", "n", "c",
      "r", "e", "\"", ":", " ", "\"", "\\", "u", "d", "8", "0", "0", "\"", ",", " ",
      "\"", "e", "r", "r", "o", "r", "C", "o", "d", "e", "\"", ":", " ", "\"", "5",
      "0", "\"", "}">>

\* What the remote service may send as one line.
Lines ==
    { KeepAlive,
      IncrementSurrogateWithCode,
      IncrementSurrogate,
      ErrorEventSurrogate,
      EventLine,
      IncrementHi,
      IncrementHiSpaced,
      IncrementHiCompact,
      IncrementWithCode,
      ErrorEvent,
      ErrorEventNoMsg,
      SuccessCode,
      NotAnObject,
      UnsupportedText,
      NotJson,
      CommentLine,
      NotUtf8 }

(***************************************************************************)
(* The stream adapter (process_sse_stream).                                *)
(***************************************************************************)
\* 'event:'
EventPrefix == <<"e", "v", "e", "n", "t", ":">>

\* 'data:'
DataPrefix == <<"d", "a", "t", "a", ":">>

\* "Unsupported"
Unsupported == <<"U", "n", "s", "u", "p", "p", "o", "r", "t", "e", "d">>

\* The keys "transIncre", "errorCode" and "errorMsg".
transIncre == <<"t", "r", "a", "n", "s", "I", "n", "c", "r", "e">>

errorCode == <<"e", "r", "r", "o", "r", "C", "o", "d", "e">>

errorMsg == <<"e", "r", "r", "o", "r", "M", "s", "g">>

\* "Unknown error"
UnknownError ==
    <<"U", "n", "k", "n", "o", "w", "n", " ", "e", "r", "r", "o", "r">>

\* "Error: "
ErrorPrefix == <<"E", "r", "r", "o", "r", ":", " ">>

\* "API Error: HTTP "
ApiErrorPrefix ==
    <<"A", "P", "I", " ", "E", "r", "r", "o", "r", ":", " ", "H", "T", "T", "P", " ">>

\* "Translation error: "
TranslationErrorPrefix ==
    <<"T", "r", "a", "n", "s", "l", "a", "t", "i", "o", "n", " ", "e", "r", "r", "o", "r",
      ":", " ">>

\* line.decode('utf-8') succeeds: the bytes are UTF-8 text.  An ASCII byte
\* decodes to its character.
IsUtf8(line) == \A i \in 1..Len(line) : line[i] # xFF

\* Characters str.strip() removes.
Whitespace == {" ", "\t", "\n", "\r"}

\* s.strip()
RECURSIVE strip(_)
strip(s) ==
    IF Len(s) = 0 THEN s
    ELSE IF s[1] \in Whitespace THEN strip(Tail(s))
    ELSE IF s[Len(s)] \in Whitespace THEN strip(SubSeq(s, 1, Len(s) - 1))
    ELSE s

\* The frame f"data: {output}\n\n" with output the JSON text of
\* {"choices": [{"delta": {"content": content}}]}.
Delta(content) == [frame |-> "delta", content |-> content]

\* The frame "data: [DONE]\n\n".
DONE == [frame |-> "[DONE]"]

\* One pass of the loop body: seen_data after it, the frames it yields, and
\* how it ends: "continue" (on to the next line), "break", or "raise" (an
\* exception leaves the generator).
Pass(seen, frames, ends) == [seen_data |-> seen, yields |-> frames, ends |-> ends]

\* v, as json.dumps(..., ensure_ascii=False) writes it, holds a lone
\* surrogate: in a str, an element of a list, or a key or value of a dict.
RECURSIVE HasSurrogate(_)
HasSurrogate(v) ==
    CASE v.type = "str"  -> \E i \in 1..Len(v.val) : v.val[i] \in Surrogates
      [] v.type = "list" -> \E i \in 1..Len(v.val) : HasSurrogate(v.val[i])
      [] v.type = "dict" -> \E k \in DOMAIN v.val :
                                \/ \E i \in 1..Len(k) : k[i] \in Surrogates
                                \/ HasSurrogate(v.val[k])
      [] OTHER           -> FALSE

\* yield f"data: {output}\n\n".encode('utf-8'), followed by `ends`: the frame
\* is yielded, or encode raises UnicodeEncodeError on a lone surrogate.
yield_frame(seen, content, ends) ==
    IF HasSurrogate(content) THEN Pass(seen, <<>>, "raise")
    ELSE Pass(seen, <<Delta(content)>>, ends)

\* The try block, for a payload that json.loads accepted as data_json.
process_json(data_json, seen) ==
    IF ~SupportsIn(data_json) THEN Pass(seen, <<>>, "raise")
    ELSE IF py_in(transIncre, data_json) THEN
        IF SupportsKey(data_json)
        THEN yield_frame(seen, data_json.val[transIncre], "continue")
        ELSE Pass(seen, <<>>, "raise")
    ELSE IF py_in(errorCode, data_json) THEN
        IF ~SupportsKey(data_json) THEN Pass(seen, <<>>, "raise")
        ELSE IF ~(data_json.val[errorCode].type = "str"
                  /\ data_json.val[errorCode].val = <<"0">>) THEN
            LET error_msg == IF errorMsg \in DOMAIN data_json.val
                             THEN data_json.val[errorMsg]
                             ELSE JStr(UnknownError)
            IN  yield_frame(seen, JStr(ErrorPrefix \o py_str(error_msg)), "break")
        ELSE Pass(seen, <<>>, "continue")
    ELSE Pass(seen, <<>>, "continue")

\* The body of `for line in response.iter_lines()`, for one line.
loop_body(line, seen) ==
    IF Len(line) = 0 THEN Pass(seen, <<>>, "continue")
    ELSE IF ~IsUtf8(line) THEN Pass(seen, <<>>, "raise")
    ELSE IF StartsWith(line, EventPrefix) THEN Pass(seen, <<>>, "continue")
    ELSE IF StartsWith(line, DataPrefix) THEN
        LET data == strip(SubSeq(line, 6, Len(line)))
        IN  IF data \in seen THEN Pass(seen, <<>>, "continue")
            ELSE LET seen2 == seen \cup {data}
                     parsed == json_loads(data)
                 IN  IF parsed.ok THEN process_json(parsed.val, seen2)
                     ELSE IF IsSubstring(Unsupported, data)
                     THEN yield_frame(seen2, JStr(ErrorPrefix \o data), "break")
                     ELSE Pass(seen2, <<>>, "continue")
    ELSE Pass(seen, <<>>, "continue")

(***************************************************************************)
(* State.                                                                  *)
(***************************************************************************)
VARIABLES
    valves,      \* self.valves: APP_KEY, APP_SECRET, TARGET_LANG
    pc,          \* where the current request stands (see below)
    gen,         \* the generator pipe returned: which function's
    response,    \* the response of requests.post: status code and connection
    caught,      \* the message of the exception pipe caught, or None
    seen_data,   \* the local seen_data of process_sse_stream
    consumed,    \* the lines iter_lines() has delivered to this request
    out,         \* the frames this request's generator has yielded
    text,        \* the str handed to detect_polish_option
    classified,  \* what detect_polish_option returned for it
    calls,       \* the arguments of two addAuthParams calls
    signed,      \* what each of the two calls returned
    truncated    \* what truncate returned for the first call's q

\* pc is one of
\*   "idle"          no request in progress
\*   "raised"        pipe raised an exception to its caller
\*   "errgen"        pipe returned error_generator(); out tells how far it ran
\*   "created"       pipe returned process_sse_stream(response), not yet started
\*   "stream"        process_sse_stream is in its loop
\*   "break"         it yielded an error frame and will break when resumed
\*   "yielded_done"  the generator yielded its last frame
\*   "done"          the generator is exhausted (StopIteration)
\*   "genraised"     an exception left the generator
\*   "abandoned"     the consumer dropped the generator before its end
pipeline_vars == <<valves, pc, gen, response, caught, seen_data, consumed, out>>

classifier_vars == <<text, classified>>

signer_vars == <<calls, signed, truncated>>

vars == <<pipeline_vars, classifier_vars, signer_vars>>

\* A call that has not returned yet, and one that returned v.
Pending == [done |-> FALSE]

Returned(v) == [done |-> TRUE, value |-> v]

\* The classifier's and the signer's own variables, at rest.
ClassifierIdle ==
    /\ text = <<>>
    /\ classified = Pending

SignerIdle ==
    /\ calls = <<>>
    /\ signed = <<>>
    /\ truncated = Pending

(***************************************************************************)
(* The pipeline: pipe and the generators it returns.                       *)
(***************************************************************************)
\* Values of str(uuid.uuid1()).
Uuids == { <<"u", "1">>, <<"u", "2">> }

\* Values of int(time.time()).
Clock == { 1700000009, 1700000010 }

\* class Valves: the defaults, with TARGET_LANG as read from the environment.
DefaultValves == [APP_KEY |-> <<>>, APP_SECRET |-> <<>>, TARGET_LANG |-> <<"z", "h">>]

\* Credentials assigned to the valves.  Assignment to a field is not
\* validated, so a field may come to hold None.
Credentials ==
    { [APP_KEY |-> <<>>, APP_SECRET |-> <<>>],
      [APP_KEY |-> None, APP_SECRET |-> <<>>] }

\* The user_message values pipe is called with; None stands for a call that
\* passes no str.
Messages == { None, <<"H", "i">>, <<"r", "u", "n", "t", "i", "m", "e", " ", "d", "a", "t", "a">> }

\* lang_map.get(lang_to, lang_to)
lang_map_get(lang_to) ==
    IF lang_to = <<"z", "h">> THEN <<"z", "h", "-", "C", "H", "S">> ELSE lang_to

\* What requests.post does: it raises (the message of the exception is
\* given), or returns a response with a status code.
PostOutcomes ==
    { [kind |-> "exception", message |-> <<"t", "i", "m", "e", "o", "u", "t">>, status |-> 0] }
    \cup { [kind |-> "response", message |-> <<>>, status |-> s] : s \in {200, 304, 404, 500} }

\* response.ok left unchecked.
ok_unchecked(status) == TRUE

\* response.ok: the status is no client or server error.
ok(status) == ~(400 <= status /\ status < 600)

NoResponse == [status |-> 0, conn |-> "none"]

\* The states in which a request has come to its end.
Ended == {"raised", "done", "genraised", "abandoned"}

Init ==
    /\ valves = DefaultValves
    /\ pc = "idle"
    /\ gen = "none"
    /\ response = NoResponse
    /\ caught = None
    /\ seen_data = {}
    /\ consumed = <<>>
    /\ out = <<>>
    /\ ClassifierIdle
    /\ SignerIdle

\* pipeline.valves.APP_KEY = ...; pipeline.valves.APP_SECRET = ...
SetValves(c) ==
    /\ pc = "idle"
    /\ valves' = [valves EXCEPT !.APP_KEY = c.APP_KEY, !.APP_SECRET = c.APP_SECRET]
    /\ UNCHANGED <<pc, gen, response, caught, seen_data, consumed, out>>
    /\ UNCHANGED <<classifier_vars, signer_vars>>

\* The request body pipe builds for user_message, before signing.
request_data(user_message) ==
    LET lang_from == <<"a", "u", "t", "o">>
        lang_to == valves.TARGET_LANG
        to_code == lang_map_get(lang_to)
        polish == detect_polish_option(user_message)
    IN  [q |-> user_message, from |-> lang_from, to |-> to_code, i |-> user_message,
         handleOption |-> <<"1">>, polishOption |-> Str(polish[1]),
         expandOption |-> <<"0">>, prompt |-> polish[2]]

\* pipe(user_message, model_id, messages, body): one call, to its return or
\* to the exception it raises.  A message that is no str fails in
\* detect_polish_option at text.lower(); both calls stand outside the try.
pipe(user_message) ==
    /\ pc = "idle"
    /\ UNCHANGED <<valves, seen_data, consumed, out, classifier_vars, signer_vars>>
    /\ IF user_message = None
       THEN /\ pc' = "raised"
            /\ gen' = "none"
            /\ response' = NoResponse
            /\ caught' = None
       ELSE \E uuid1 \in Uuids, now \in Clock :
              LET data == addAuthParams(valves.APP_KEY, valves.APP_SECRET,
                                        request_data(user_message), uuid1, now)
              IN  IF IsRaised(data)
                  THEN /\ pc' = "raised"
                       /\ gen' = "none"
                       /\ response' = NoResponse
                       /\ caught' = None
                  ELSE \E post \in PostOutcomes :
                         IF post.kind = "exception"
                         THEN /\ pc' = "errgen"
                              /\ gen' = "error_generator"
                              /\ response' = NoResponse
                              /\ caught' = post.message
                         ELSE /\ response' = [status |-> post.status, conn |-> "open"]
                              /\ caught' = None
                              /\ IF ~ok(post.status)
                                 THEN pc' = "errgen" /\ gen' = "error_generator"
                                 ELSE pc' = "created" /\ gen' = "process_sse_stream"

\* The content of error_generator's first frame.
error_content ==
    IF caught # None THEN TranslationErrorPrefix \o caught
    ELSE ApiErrorPrefix \o Str(response.status)

\* next() on error_generator(): its two yields, then its end.
error_generator ==
    /\ pc = "errgen"
    /\ IF Len(out) = 0 THEN out' = <<Delta(JStr(error_content))>> /\ pc' = pc
       ELSE IF Len(out) = 1 THEN out' = Append(out, DONE) /\ pc' = pc
       ELSE out' = out /\ pc' = "done"
    /\ UNCHANGED <<valves, gen, response, caught, seen_data, consumed>>
    /\ UNCHANGED <<classifier_vars, signer_vars>>

\* The first next() on process_sse_stream(response): seen_data = set().
process_sse_stream ==
    /\ pc = "created"
    /\ seen_data' = {}
    /\ pc' = "stream"
    /\ UNCHANGED <<valves, gen, response, caught, consumed, out>>
    /\ UNCHANGED <<classifier_vars, signer_vars>>

\* iter_lines() delivers `line` and the loop body runs on it.
read_line(line) ==
    /\ pc = "stream"
    /\ Len(consumed) < MaxLines
    /\ consumed' = Append(consumed, line)
    /\ LET pass == loop_body(line, seen_data)
       IN  /\ seen_data' = pass.seen_data
           /\ out' = out \o pass.yields
           /\ pc' = CASE pass.ends = "continue" -> "stream"
                      [] pass.ends = "break"    -> "break"
                      [] pass.ends = "raise"    -> "genraised"
    /\ UNCHANGED <<valves, gen, response, caught>>
    /\ UNCHANGED <<classifier_vars, signer_vars>>

\* iter_lines() is exhausted: the body has been read to its end, which
\* releases the connection, and the loop falls through to the last yield.
end_of_stream ==
    /\ pc = "stream"
    /\ response' = [response EXCEPT !.conn = "released"]
    /\ out' = Append(out, DONE)
    /\ pc' = "yielded_done"
    /\ UNCHANGED <<valves, gen, caught, seen_data, consumed>>
    /\ UNCHANGED <<classifier_vars, signer_vars>>

\* iter_lines() raises: the read failed.  The failed read closes the
\* connection; the exception leaves the generator.
read_error ==
    /\ pc = "stream"
    /\ response' = [response EXCEPT !.conn = "released"]
    /\ pc' = "genraised"
    /\ UNCHANGED <<valves, gen, caught, seen_data, consumed, out>>
    /\ UNCHANGED <<classifier_vars, signer_vars>>

\* Resumed after the yield of an error frame: break, then the last yield.
after_break ==
    /\ pc = "break"
    /\ out' = Append(out, DONE)
    /\ pc' = "yielded_done"
    /\ UNCHANGED <<valves, gen, response, caught, seen_data, consumed>>
    /\ UNCHANGED <<classifier_vars, signer_vars>>

\* Resumed after the last yield: the generator returns.
finish ==
    /\ pc = "yielded_done"
    /\ pc' = "done"
    /\ UNCHANGED <<valves, gen, response, caught, seen_data, consumed, out>>
    /\ UNCHANGED <<classifier_vars, signer_vars>>

\* The consumer stops iterating and drops the generator.  Neither generator
\* has a finally block or closes the response.
abandon ==
    /\ pc \in {"errgen", "created", "stream", "break", "yielded_done"}
    /\ pc' = "abandoned"
    /\ UNCHANGED <<valves, gen, response, caught, seen_data, consumed, out>>
    /\ UNCHANGED <<classifier_vars, signer_vars>>

\* The caller is through with the request, and the pipeline is ready for
\* the next call of pipe.  The locals of the finished generator are garbage.
request_over ==
    /\ pc \in Ended
    /\ pc' = "idle"
    /\ gen' = "none"
    /\ response' = NoResponse
    /\ caught' = None
    /\ consumed' = <<>>
    /\ out' = <<>>
    /\ UNCHANGED <<valves, seen_data, classifier_vars, signer_vars>>

Next ==
    \/ \E c \in Credentials : SetValves(c)
    \/ \E user_message \in Messages : pipe(user_message)
    \/ error_generator
    \/ process_sse_stream
    \/ \E line \in Lines : read_line(line)
    \/ end_of_stream
    \/ read_error
    \/ after_break
    \/ finish
    \/ abandon
    \/ request_over

Spec == Init /\ [][Next]_vars

(***************************************************************************)
(* The classifier applied to bounded inputs.                               *)
(***************************************************************************)
\* " ".join(ws)
RECURSIVE JoinWords(_)
JoinWords(ws) ==
    IF Len(ws) = 0 THEN <<>>
    ELSE IF Len(ws) = 1 THEN ws[1]
    ELSE ws[1] \o <<" ">> \o JoinWords(Tail(ws))

\* The input texts: up to MaxWords vocabulary words joined by blanks (the
\* empty text included), and the sample texts of main().
Texts ==
    { JoinWords(ws) : ws \in UNION { [1..n -> Vocabulary] : n \in 0..MaxWords } }
    \cup { test_texts[i] : i \in 1..Len(test_texts) }

\* The pipeline's variables, at rest.
PipelineIdle ==
    /\ valves = DefaultValves
    /\ pc = "idle"
    /\ gen = "none"
    /\ response = NoResponse
    /\ caught = None
    /\ seen_data = {}
    /\ consumed = <<>>
    /\ out = <<>>

InitClassify ==
    /\ text \in Texts
    /\ classified = Pending
    /\ SignerIdle
    /\ PipelineIdle

\* result = pipeline.detect_polish_option(text)
Classify ==
    /\ ~classified.done
    /\ classified' = Returned(detect_polish_option(text))
    /\ UNCHANGED <<text, signer_vars, pipeline_vars>>

NextClassify == Classify

SpecClassify == InitClassify /\ [][NextClassify]_vars

(***************************************************************************)
(* The signer applied to bounded inputs, two calls side by side.           *)
(***************************************************************************)
Block1 == <<"a", "b", "c", "d", "e", "f", "g", "h", "i", "j">>

Block2 == <<"k", "l", "m", "n", "o", "p", "q", "r", "s", "t">>

\* n copies of s, concatenated.
RECURSIVE Repeat(_, _)
Repeat(s, n) == IF n = 0 THEN <<>> ELSE s \o Repeat(s, n - 1)

\* The q values: short ones, 20 characters and a little more (the middle
\* drawn over two letters), 100 characters, and None.
Qs ==
    { <<>>, <<"h", "i">>, None, Repeat(Block1, 10) }
    \cup { Block1 \o mid \o Block2 :
             mid \in UNION { [1..n -> {"x", "y"}] : n \in 0..MaxMid } }

AppKeys == { <<"k">>, <<"k", "2">> }

AppSecrets == { <<"s">>, <<"2", "s">> }

InitSign ==
    /\ calls \in [1..2 -> [app_key : AppKeys, app_secret : AppSecrets, q : Qs]]
    /\ signed = [i \in 1..2 |-> Pending]
    /\ truncated = Pending
    /\ ClassifierIdle
    /\ PipelineIdle

\* data = addAuthParams(app_key, app_secret, {"q": q}), call number i.
Sign(i) ==
    /\ ~signed[i].done
    /\ \E uuid1 \in Uuids, now \in Clock :
         signed' = [signed EXCEPT ![i] =
                      Returned(addAuthParams(calls[i].app_key, calls[i].app_secret,
                                             [q |-> calls[i].q], uuid1, now))]
    /\ UNCHANGED <<calls, truncated, classifier_vars, pipeline_vars>>

\* truncate(q) for the first call's q.
Truncate ==
    /\ ~truncated.done
    /\ truncated' = Returned(truncate(calls[1].q))
    /\ UNCHANGED <<calls, signed, classifier_vars, pipeline_vars>>

NextSign ==
    \/ \E i \in 1..2 : Sign(i)
    \/ Truncate

SpecSign == InitSign /\ [][NextSign]_vars


(***************************************************************************)
(* Properties of the pipeline, checked under Spec.                         *)
(***************************************************************************)
\* The last frame of a sequence of frames.
Last(frames) == frames[Len(frames)]

\* How many frames of a sequence are the sentinel.
Sentinels(frames) == Cardinality({ i \in 1..Len(frames) : frames[i] = DONE })

\* C1: however process_sse_stream ends -- its input exhausted, an early stop,
\* or an exception leaving it -- its output holds exactly one sentinel frame
\* "data: [DONE]\n\n", and that frame is the last one.
C1_SentinelEndsEveryStream ==
    (gen = "process_sse_stream" /\ pc \in {"done", "genraised"})
        => /\ Len(out) >= 1
           /\ Last(out) = DONE
           /\ Sentinels(out) = 1

\* C2: pipe never raises an exception to its caller.
C2_PipeNeverRaises == pc # "raised"

\* C3: once the output sequence of a request that opened a connection has
\* ended -- exhausted, ended early, or abandoned -- the connection has been
\* released.
C3_ConnectionReleasedAtEnd ==
    (pc \in {"done", "genraised", "abandoned"} /\ response.conn # "none")
        => response.conn = "released"

\* A line the adapter takes for a data line, and its trimmed payload.
IsDataLine(line) == Len(line) > 0 /\ IsUtf8(line) /\ StartsWith(line, DataPrefix)

DataPayload(line) == strip(SubSeq(line, 6, Len(line)))

\* The payloads of the data lines among `lines`.
Payloads(lines) ==
    { DataPayload(lines[i]) : i \in { j \in 1..Len(lines) : IsDataLine(lines[j]) } }

\* Line i is a data line whose payload no earlier line carried.
FirstOccurrence(lines, i) ==
    /\ IsDataLine(lines[i])
    /\ DataPayload(lines[i]) \notin Payloads(SubSeq(lines, 1, i - 1))

\* The payload of a data line parses as a JSON object, and the object.
IsObject(line) ==
    LET parsed == json_loads(DataPayload(line))
    IN  parsed.ok /\ parsed.val.type = "dict"

ObjectOf(line) == json_loads(DataPayload(line)).val.val

\* A data line whose payload is an object with a transIncre field.
IsIncrement(line) ==
    IsDataLine(line) /\ IsObject(line) /\ transIncre \in DOMAIN ObjectOf(line)

\* A data line whose payload is an object without a transIncre field and
\* with an errorCode field that is not "0"; and the frame carrying its
\* errorMsg, or "Unknown error".
IsErrorEvent(line) ==
    /\ IsDataLine(line)
    /\ IsObject(line)
    /\ transIncre \notin DOMAIN ObjectOf(line)
    /\ errorCode \in DOMAIN ObjectOf(line)
    /\ ~(ObjectOf(line)[errorCode].type = "str" /\ ObjectOf(line)[errorCode].val = <<"0">>)

ErrorFrameOf(line) ==
    Delta(JStr(ErrorPrefix \o (IF errorMsg \in DOMAIN ObjectOf(line)
                               THEN py_str(ObjectOf(line)[errorMsg])
                               ELSE UnknownError)))

\* The frames other than the sentinel.
IsContentFrame(f) == f # DONE

ContentFrames(frames) == SelectSeq(frames, IsContentFrame)

\* The output ends with the line's error frame, followed by the sentinel
\* once the generator has gone on from the frame.
EndsWithErrorFrameOf(line) ==
    \/ /\ pc \in {"break", "abandoned"}
       /\ Len(out) >= 1
       /\ Last(out) = ErrorFrameOf(line)
       /\ Len(ContentFrames(SubSeq(out, 1, Len(out) - 1))) < Len(consumed)
    \/ /\ pc \in {"yielded_done", "done", "abandoned"}
       /\ Len(out) >= 2
       /\ out[Len(out) - 1] = ErrorFrameOf(line)
       /\ Last(out) = DONE
       /\ Len(ContentFrames(SubSeq(out, 1, Len(out) - 2))) < Len(consumed)

\* C5: a not-yet-seen payload that is an object without transIncre and with
\* an errorCode other than "0" makes the adapter emit exactly one error frame
\* carrying the errorMsg (or "Unknown error"), then the sentinel, and read no
\* further line: where such a line is among the lines read, it is the last
\* one read, the loop has been left, and the output ends with the one frame
\* the line gave, then the sentinel.
C5_ErrorEventStopsStream ==
    \A i \in 1..Len(consumed) :
        (FirstOccurrence(consumed, i) /\ IsErrorEvent(consumed[i])) =>
            /\ i = Len(consumed)
            /\ pc \in {"break", "yielded_done", "done", "abandoned"}
            /\ EndsWithErrorFrameOf(consumed[i])

\* No object among the payloads read holds a lone surrogate.
FramesEncode ==
    \A i \in 1..Len(consumed) :
        (IsDataLine(consumed[i]) /\ IsObject(consumed[i])) =>
            ~HasSurrogate(JDict(ObjectOf(consumed[i])))

\* The statement of C5 for the streams whose frames encode as UTF-8.
ErrorEventStopsStreamWhereFramesEncode == FramesEncode => C5_ErrorEventStopsStream

\* The frames of the first occurrences among increment lines, in order.
RECURSIVE FirstOccurrenceFrames(_)
FirstOccurrenceFrames(lines) ==
    IF Len(lines) = 0 THEN <<>>
    ELSE FirstOccurrenceFrames(SubSeq(lines, 1, Len(lines) - 1))
         \o (IF FirstOccurrence(lines, Len(lines))
             THEN <<Delta(ObjectOf(Last(lines))[transIncre])>>
             ELSE <<>>)

\* The generator's body has been entered: a generator that is created and
\* dropped before its first frame is asked for has no seen-set.
Started ==
    \/ pc \in {"stream", "break", "yielded_done", "done", "genraised"}
    \/ pc = "abandoned" /\ consumed # <<>>

\* C6: in one run of process_sse_stream the seen-set starts empty and holds
\* the trimmed payloads read so far; each distinct payload gives at most one
\* frame; and for a stream of transIncre data lines the content frames are
\* those of the first occurrences, as many as there are distinct payloads.
C6_OneFramePerDistinctPayload ==
    (gen = "process_sse_stream" /\ Started) =>
        /\ seen_data = Payloads(consumed)
        /\ Len(ContentFrames(out)) <= Cardinality(Payloads(consumed))
        /\ (\A i \in 1..Len(consumed) : IsIncrement(consumed[i])) =>
              /\ ContentFrames(out) = FirstOccurrenceFrames(consumed)
              /\ Len(ContentFrames(out)) = Cardinality(Payloads(consumed))
              /\ pc = "done" => out = FirstOccurrenceFrames(consumed) \o <<DONE>>

\* The statement of C6 for the streams whose frames encode as UTF-8.
OneFramePerDistinctPayloadWhereFramesEncode ==
    FramesEncode => C6_OneFramePerDistinctPayload

\* Two identical increment lines and a distinct third were read to the end:
\* two content frames and the sentinel.
TwoIdenticalThenDistinct ==
    /\ pc = "done"
    /\ consumed = <<IncrementHi, IncrementHi, IncrementHiCompact>>
    /\ Len(out) = 3
    /\ Sentinels(out) = 1

\* The request failed to open: requests.post raised, or the response has a
\* client or server error status.
OpenFailed ==
    \/ caught # None
    \/ response.conn # "none" /\ response.status >= 400

\* The first frame is an error-content frame that describes the failure: the
\* message of the exception, or the status code.
DescribesFailure(f) ==
    /\ f # DONE
    /\ f.content.type = "str"
    /\ IF caught # None
       THEN f.content.val = TranslationErrorPrefix \o caught
       ELSE LET content == f.content.val
            IN  /\ StartsWith(content, ApiErrorPrefix)
                /\ DecimalValue(SubSeq(content, Len(ApiErrorPrefix) + 1, Len(content)))
                       = response.status

IsUnsupportedPayload(line) ==
    /\ IsDataLine(line)
    /\ ~json_loads(DataPayload(line)).ok
    /\ IsSubstring(Unsupported, DataPayload(line))

\* The payload of a data line parsed to a value with the field `key`: only
\* an object has fields.
HasField(line, key) == IsObject(line) /\ key \in DOMAIN ObjectOf(line)

\* A data line whose payload yields neither a content nor an error frame: no
\* JSON and without the marker, or JSON that has neither a transIncre field
\* nor an errorCode field other than "0".
IsIgnoredPayload(line) ==
    /\ IsDataLine(line)
    /\ IF json_loads(DataPayload(line)).ok
       THEN /\ ~HasField(line, transIncre)
            /\ ~(HasField(line, errorCode) /\ IsErrorEvent(line))
       ELSE ~IsSubstring(Unsupported, DataPayload(line))

\* This step reads one more line, whose payload was not seen before.
ReadsNewPayload ==
    /\ Len(consumed') = Len(consumed) + 1
    /\ FirstOccurrence(consumed', Len(consumed'))

\* Reading a new unsupported payload adds one error frame with the raw
\* payload and leaves the loop, after which only the sentinel is added.
UnsupportedPayloadStops ==
    /\ (ReadsNewPayload /\ IsUnsupportedPayload(Last(consumed')))
           => /\ out' = Append(out, Delta(JStr(ErrorPrefix \o DataPayload(Last(consumed')))))
              /\ pc' = "break"
    /\ pc = "break" => /\ consumed' = consumed
                       /\ out' = out \/ out' = Append(out, DONE)

\* Reading a new ignored payload adds no frame and stays in the loop; an
\* increment that encodes, read after an ignored payload, gives its frame.
IgnoredPayloadContinues ==
    /\ (ReadsNewPayload /\ IsIgnoredPayload(Last(consumed')))
           => out' = out /\ pc' = "stream"
    /\ (/\ ReadsNewPayload
        /\ IsIncrement(Last(consumed'))
        /\ ~HasSurrogate(JDict(ObjectOf(Last(consumed'))))
        /\ \E i \in 1..Len(consumed) : IsIgnoredPayload(consumed[i]))
           => out' = Append(out, Delta(ObjectOf(Last(consumed'))[transIncre]))

\* C11: a not-yet-seen payload that is no JSON and holds the unsupported
\* marker gives exactly one error frame carrying the raw payload and stops
\* the reading, only the sentinel following; every other payload that gives
\* neither a content nor an error frame (no JSON and no marker, or JSON
\* without a transIncre field and without an errorCode other than "0") gives
\* no frame and the reading goes on, so that later transIncre lines are
\* still emitted.
C11_UnsupportedStopsIgnoredContinues ==
    [][UnsupportedPayloadStops /\ IgnoredPayloadContinues]_vars

\* The statement of C11 for the payloads that are no JSON or are JSON
\* objects.
UnsupportedStopsIgnoredContinuesForObjects ==
    [][ /\ UnsupportedPayloadStops
        /\ (\A i \in 1..Len(consumed') :
               (IsDataLine(consumed'[i]) /\ json_loads(DataPayload(consumed'[i])).ok)
                   => IsObject(consumed'[i]))
              => IgnoredPayloadContinues ]_vars

\* An unparseable payload without the marker and the success code alone were
\* passed over, the increment after them was emitted, and the unsupported
\* payload ended the stream: here the first and the last of these.
IgnoredThenIncrementThenUnsupported ==
    /\ pc = "done"
    /\ consumed = <<NotJson, IncrementHi, UnsupportedText>>
    /\ out = <<Delta(JStr(<<"H", "i">>)),
               Delta(JStr(ErrorPrefix \o DataPayload(UnsupportedText))), DONE>>

\* A data line whose payload is an object with a transIncre field and an
\* errorCode field that is not "0".
IsIncrementWithErrorCode(line) ==
    /\ HasField(line, transIncre)
    /\ HasField(line, errorCode)
    /\ ~(ObjectOf(line)[errorCode].type = "str" /\ ObjectOf(line)[errorCode].val = <<"0">>)

\* Reading a new payload with both fields adds the one content frame of its
\* transIncre and stays in the loop; and no line that carries a transIncre
\* field makes the loop break.
TransIncreBeforeErrorCode ==
    /\ (ReadsNewPayload /\ IsIncrementWithErrorCode(Last(consumed')))
           => /\ out' = Append(out, Delta(ObjectOf(Last(consumed'))[transIncre]))
              /\ pc' = "stream"
    /\ (Len(consumed') = Len(consumed) + 1 /\ HasField(Last(consumed'), transIncre))
           => pc' # "break"

\* C13: transIncre takes precedence over errorCode: a not-yet-seen payload
\* that has both a transIncre field and an errorCode other than "0" is
\* emitted as one ordinary content frame, gives no error frame and does not
\* end the stream; only a payload without transIncre stops the stream
\* through its errorCode.
C13_TransIncreTakesPrecedence == [][TransIncreBeforeErrorCode]_vars

\* The statement of C13 for the streams whose frames encode as UTF-8.
TransIncreTakesPrecedenceWhereFramesEncode ==
    [][ (/\ Len(consumed') = Len(consumed) + 1
         /\ IsObject(Last(consumed'))
         /\ HasSurrogate(JDict(ObjectOf(Last(consumed')))))
        \/ TransIncreBeforeErrorCode ]_vars

\* A payload with both fields was emitted as a content frame, and the line
\* after it was read and emitted as well.
IncrementWithCodeThenIncrement ==
    /\ pc = "done"
    /\ consumed = <<IncrementWithCode, IncrementHi>>
    /\ out = <<Delta(JStr(<<"Y", "o">>)), Delta(JStr(<<"H", "i">>)), DONE>>

(***************************************************************************)
(* Properties of the classifier, checked under SpecClassify.               *)
(***************************************************************************)
\* Some keyword of the list occurs in the lower-cased input text.
TextHas(keywords) == any_keyword_in(keywords, Lower(text))

ClaimedDomains ==
    << <<domain_keywords_literary,   7,  prompt_domain_literary>>,
       <<domain_keywords_computer,   9,  prompt_domain_computer>>,
       <<domain_keywords_medical,    11, prompt_domain_medical>>,
       <<domain_keywords_biology,    13, prompt_domain_biology>>,
       <<domain_keywords_mechanical, 15, prompt_domain_mechanical>>,
       <<domain_keywords_finance,    1,  prompt_domain_finance>>,
       <<domain_keywords_legal,      1,  prompt_domain_legal>> >>

ClaimedStyles ==
    << <<style_keywords_literary,  7, prompt_style_literary>>,
       <<style_keywords_formal,    1, prompt_style_formal>>,
       <<style_keywords_casual,    3, prompt_style_casual>>,
       <<style_keywords_concise,   5, prompt_style_concise>>,
       <<style_keywords_rich,      7, prompt_style_rich>>,
       <<style_keywords_technical, 9, prompt_style_technical>> >>

\* The rows of a table with a keyword in the text.
Matching(table) == { i \in 1..Len(table) : TextHas(table[i][1]) }

\* The least number of a nonempty set of numbers.
Least(S) == CHOOSE i \in S : \A j \in S : i <= j

\* The pair of row i.
PairOf(table, i) == <<table[i][2], table[i][3]>>

CommentedPairs ==
    << <<11, prompt_domain_medical>>,      \* Medical domain
       <<9,  prompt_domain_computer>>,     \* Computer domain
       <<13, prompt_domain_biology>>,      \* Biology domain
       <<15, prompt_domain_mechanical>>,   \* Mechanical domain
       <<1,  prompt_domain_finance>>,      \* Finance domain
       <<1,  prompt_domain_legal>>,        \* Legal domain
       <<3,  prompt_style_casual>>,        \* Casual style
       <<5,  prompt_style_concise>>,       \* Concise style
       <<7,  prompt_style_rich>>,          \* Rich style
       <<9,  prompt_style_technical>> >>   \* Technical style

\* C12: each of the ten sample texts of main() is classified into the
\* category its comment names, with that category's option and prompt.
C12_SampleTextsMatchTheirComments ==
    \A i \in 1..Len(test_texts) :
        (classified.done /\ text = test_texts[i])
            => classified.value = CommentedPairs[i]

\* The pairs the ten sample texts get: the second, seventh and ninth the
\* literary-domain pair, the tenth the computer-domain pair, the others the
\* pair of their comment.
ClassifiedPairs ==
    [CommentedPairs EXCEPT ![2]  = <<7, prompt_domain_literary>>,
                           ![7]  = <<7, prompt_domain_literary>>,
                           ![9]  = <<7, prompt_domain_literary>>,
                           ![10] = <<9, prompt_domain_computer>>]

SampleTextsAsClassified ==
    \A i \in 1..Len(test_texts) :
        (classified.done /\ text = test_texts[i])
            => classified.value = ClassifiedPairs[i]

(***************************************************************************)
(* Properties of the signer, checked under SpecSign.                       *)
(***************************************************************************)
\* Both calls returned a signed body.
BothSigned ==
    \A i \in 1..2 : signed[i].done /\ ~IsRaised(signed[i].value)

\* The five values call i signed: appKey, q, salt, timestamp, appSecret.
Inputs(i) ==
    <<calls[i].app_key, calls[i].q, signed[i].value.salt,
      signed[i].value.curtime, calls[i].app_secret>>

\* The same, with truncate(q) in the place of q.
TruncatedInputs(i) == [Inputs(i) EXCEPT ![2] = truncate(calls[i].q)]

\* Two 5-tuples differ in exactly one place.
DifferInOne(x, y) == Cardinality({ k \in 1..5 : x[k] # y[k] }) = 1

\* C8, as claimed: the digest is a function of (appKey, q, salt, timestamp,
\* appSecret): equal inputs give equal digests, and inputs that differ in
\* exactly one of the five give different digests.
C8_DigestSeparatesInputs ==
    BothSigned =>
        /\ Inputs(1) = Inputs(2) => signed[1].value.sign = signed[2].value.sign
        /\ DifferInOne(Inputs(1), Inputs(2))
               => signed[1].value.sign # signed[2].value.sign

\* C8, amended: the digest is a function of (appKey, truncate(q), salt,
\* timestamp, appSecret): equal values give equal digests -- so two q with
\* the same truncate(q) sign alike -- and values that differ in exactly one
\* of the five give different digests.
C8_DigestSeparatesTruncatedInputs ==
    BothSigned =>
        /\ TruncatedInputs(1) = TruncatedInputs(2)
               => signed[1].value.sign = signed[2].value.sign
        /\ DifferInOne(TruncatedInputs(1), TruncatedInputs(2))
               => signed[1].value.sign # signed[2].value.sign

\* Two calls that differ in nothing but the salt were signed, and two calls
\* that differ in q alone, with the same truncate(q); this is the second.
C8_Witness ==
    /\ BothSigned
    /\ DifferInOne(Inputs(1), Inputs(2))
    /\ calls[1].q # calls[2].q
    /\ TruncatedInputs(1) = TruncatedInputs(2)
    /\ signed[1].value.sign = signed[2].value.sign

\* The number of decimal digits of n, for 0 <= n < 10000.
NumDigits(n) == IF n < 10 THEN 1 ELSE IF n < 100 THEN 2 ELSE IF n < 1000 THEN 3 ELSE 4

\* C9: truncate(q) is q when len(q) <= 20; when len(q) > 20 it is the first
\* 10 characters of q, then len(q) in decimal, then the last 10 characters of
\* q, and its length is 20 plus the number of digits of len(q).
C9_TruncateShape ==
    (truncated.done /\ calls[1].q # None) =>
        LET q == calls[1].q
            t == truncated.value
            n == Len(q)
            digits == SubSeq(t, 11, Len(t) - 10)
        IN  /\ n <= 20 => t = q
            /\ n > 20 =>
                 /\ Len(t) = 20 + NumDigits(n)
                 /\ \A i \in 1..10 : t[i] = q[i] /\ t[Len(t) - 10 + i] = q[n - 10 + i]
                 /\ \A i \in 1..Len(digits) : IsDigit(digits[i])
                 /\ digits[1] # "0"
                 /\ DecimalValue(digits) = n

\* truncate has run on a q of 21 characters.
C9_Witness ==
    /\ truncated.done
    /\ calls[1].q # None
    /\ Len(calls[1].q) = 21
    /\ Len(truncated.value) = 22

=============================================================================
